---- MODULE Spec2Model ----
(***************************************************************************)
(* Task tracker: the status/permission rule engine, the Task entity that   *)
(* delegates to it, and the SQL-backed task store written by the routers,  *)
(* the repository and the application service.                            *)
(***************************************************************************)
EXTENDS Integers, FiniteSets, Sequences, TLC

\* ------------------------------------------------------------------ bounds
MaxUser == 3
MaxTasks == 1
MaxDbUser == 2
MaxDay == 2
MaxProc == 2
MaxDbTag == 1
MaxAtt == 1
MaxName == 2
MaxOver == 2
MaxPad == 1

\* Python's None, for Optional[int] values (ids are positive, 0 is an int)
None == -1

UserIds == 1..MaxUser
CallerIds == UserIds \cup {None}
Titles == {"t1", "t2"}
Descriptions == {"d1"}

\* ------------------------------------------------- domain: status rules
CREATED == "created"
IN_PROGRESS == "in_progress"
PAUSED == "paused"
COMPLETED == "completed"
CANCELLED == "cancelled"

TaskStatus == {CREATED, IN_PROGRESS, PAUSED, COMPLETED, CANCELLED}

ALLOWED_TRANSITIONS_reopen ==
    [s \in TaskStatus |->
        CASE s = CREATED     -> {IN_PROGRESS, CANCELLED}
          [] s = IN_PROGRESS -> {PAUSED, COMPLETED, CANCELLED}
          [] s = PAUSED      -> {IN_PROGRESS, CANCELLED}
          [] s = COMPLETED   -> {IN_PROGRESS}
          [] s = CANCELLED   -> {}]

ALLOWED_TRANSITIONS ==
    [s \in TaskStatus |->
        CASE s = CREATED     -> {IN_PROGRESS, CANCELLED}
          [] s = IN_PROGRESS -> {PAUSED, COMPLETED, CANCELLED}
          [] s = PAUSED      -> {IN_PROGRESS, CANCELLED}
          [] s = COMPLETED   -> {}
          [] s = CANCELLED   -> {}]

can_transition_same == [cur \in TaskStatus, tgt \in TaskStatus |->
    tgt = cur \/ tgt \in ALLOWED_TRANSITIONS[cur]]

\* cls.ALLOWED_TRANSITIONS.get(current, set()); target in allowed
can_transition == [cur \in TaskStatus, tgt \in TaskStatus |->
    tgt \in (IF cur \in DOMAIN ALLOWED_TRANSITIONS
             THEN ALLOWED_TRANSITIONS[cur] ELSE {})]

\* returns the exception raised, "none" when the call returns normally
validate_transition(t, new_status) ==
    IF ~can_transition[t.status, new_status]
    THEN "InvalidTaskStatusTransitionError"
    ELSE "none"

\* --------------------------------------------- domain: permission rules
can_edit_task_no_assignee(user_id, t, is_admin) ==
    IF is_admin THEN TRUE ELSE user_id = t.creator_id

can_edit_task(user_id, t, is_admin) ==
    IF is_admin THEN TRUE ELSE user_id \in {t.creator_id, t.assignee_id}

can_delete_task_as_edit(user_id, t, is_admin) ==
    IF is_admin THEN TRUE ELSE user_id \in {t.creator_id, t.assignee_id}

can_delete_task(user_id, t, is_admin) ==
    IF is_admin THEN TRUE ELSE user_id = t.creator_id

can_change_assignee_as_edit(user_id, t, is_admin) ==
    IF is_admin THEN TRUE ELSE user_id \in {t.creator_id, t.assignee_id}

can_change_assignee(user_id, t, is_admin) ==
    IF is_admin THEN TRUE ELSE user_id = t.creator_id

\* ------------------------------------------------------ the Task entity
\* Task.__init__ stores its six arguments as given
Task(id, title, description, status, creator_id, assignee_id) ==
    [id |-> id, title |-> title, description |-> description,
     status |-> status, creator_id |-> creator_id,
     assignee_id |-> assignee_id]

TaskObjects ==
    {Task(1, ti, d, s, c, a) :
        ti \in {"t1"}, d \in Descriptions, s \in TaskStatus,
        c \in UserIds, a \in UserIds \cup {None}}

\* each mutator yields the exception raised and the object afterwards
Task_update_title_takes_ownership(t, new_title, user_id, is_admin) ==
    IF ~can_edit_task(user_id, t, is_admin)
    THEN [err |-> "UnauthorizedTaskEditError", task |-> t]
    ELSE [err |-> "none",
          task |-> [t EXCEPT !.title = new_title, !.creator_id = user_id]]

Task_update_title(t, new_title, user_id, is_admin) ==
    IF ~can_edit_task(user_id, t, is_admin)
    THEN [err |-> "UnauthorizedTaskEditError", task |-> t]
    ELSE [err |-> "none", task |-> [t EXCEPT !.title = new_title]]

Task_change_status_assign_first(t, new_status, user_id, is_admin) ==
    IF ~can_edit_task(user_id, t, is_admin)
    THEN [err |-> "UnauthorizedTaskEditError", task |-> t]
    ELSE [err |-> validate_transition(t, new_status),
          task |-> [t EXCEPT !.status = new_status]]

Task_change_status_validate_first(t, new_status, user_id, is_admin) ==
    IF validate_transition(t, new_status) # "none"
    THEN [err |-> validate_transition(t, new_status), task |-> t]
    ELSE IF ~can_edit_task(user_id, t, is_admin)
    THEN [err |-> "UnauthorizedTaskEditError", task |-> t]
    ELSE [err |-> "none", task |-> [t EXCEPT !.status = new_status]]

Task_change_status(t, new_status, user_id, is_admin) ==
    IF ~can_edit_task(user_id, t, is_admin)
    THEN [err |-> "UnauthorizedTaskEditError", task |-> t]
    ELSE IF validate_transition(t, new_status) # "none"
    THEN [err |-> validate_transition(t, new_status), task |-> t]
    ELSE [err |-> "none", task |-> [t EXCEPT !.status = new_status]]

Task_assign_to_as_edit(t, assignee_id, user_id, is_admin) ==
    IF ~can_edit_task(user_id, t, is_admin)
    THEN [err |-> "UnauthorizedAssigneeChangeError", task |-> t]
    ELSE [err |-> "none", task |-> [t EXCEPT !.assignee_id = assignee_id]]

Task_assign_to(t, assignee_id, user_id, is_admin) ==
    IF ~can_change_assignee(user_id, t, is_admin)
    THEN [err |-> "UnauthorizedAssigneeChangeError", task |-> t]
    ELSE [err |-> "none", task |-> [t EXCEPT !.assignee_id = assignee_id]]

Task_start_work(t, user_id, is_admin) ==
    Task_change_status(t, IN_PROGRESS, user_id, is_admin)

\* the older Task class: no is_admin, no transition check, and the
\* exception class it raises is not imported in that module
Legacy_start_work(t, user_id) ==
    IF user_id \notin {t.creator_id, t.assignee_id}
    THEN [err |-> "NameError", task |-> t]
    ELSE [err |-> "none", task |-> [t EXCEPT !.status = IN_PROGRESS]]


\* ------------------------------------------------------------------ state
VARIABLES
    call,        \* the last rule evaluation: its inputs and its result
    task,        \* the Task object (src/src/domain/models/task.py)
    lastOp,      \* the last mutator call on task: inputs, exception, object before
    legacyTask,  \* a Task object of the older class (src/domain/models/task.py)
    legacyOp,    \* the last start_work call on legacyTask
    db_task,     \* table task: id -> row, NoRow when no row has that id
    db_assignee, \* table task_assignee: the set of <<task_id, user_id>> rows
    next_id,     \* the next value of the task id sequence
    response,    \* the last reply of an endpoint, repository or service call
    db_tag,      \* table task_tag: the set of <<task_id, tag_id>> rows
    db_attachment, \* table attachment: id -> row
    next_att_id, \* the next value of the attachment id sequence
    db_user,     \* table "user": id -> row
    db_user2,    \* table "user" of a second run, fed the same requests but for
                 \* the passwords
    next_user_id, \* the next value of the user id sequence
    response2,   \* the last reply of the second run
    db_tagrow,   \* table tag: id -> name
    next_tag_id, \* the next value of the tag id sequence
    durations,   \* the Duration objects constructed so far, by their seconds
    time_log,    \* the TimeLog object: the seconds of the Duration it holds
    value_op,    \* the last Duration call: inputs and outcome
    attachment,  \* the Attachment object constructed last
    titles,      \* the TaskTitle object constructed last, by its value; {} before
    title_op,    \* the last TaskTitle call: input and outcome
    emails,      \* the Email object constructed before the last call; {} before
    email_op,    \* the last Email call: input and outcome
    proc,        \* per request in flight: where TaskService.change_task_status is
    loads        \* the loading call in progress and where each of its loads is

vars == <<call, task, lastOp, legacyTask, legacyOp, db_task, db_assignee, next_id,
          response, proc, db_tag, db_attachment, next_att_id, db_user, db_user2,
          next_user_id, response2, db_tagrow, next_tag_id, durations, time_log,
          value_op, attachment, titles, title_op, emails,
          email_op, loads>>

ruleVars == <<call>>
entityVars == <<task, lastOp>>
legacyVars == <<legacyTask, legacyOp>>
tagAttVars == <<db_tag, db_attachment, next_att_id>>
dbVars == <<db_task, db_assignee, next_id, response, tagAttVars>>
procVars == <<proc, loads>>
userVars == <<db_user, db_user2, next_user_id, response2>>
tagRowVars == <<db_tagrow, next_tag_id>>
valueVars == <<durations, time_log, value_op, attachment>>
textVars == <<titles, title_op, emails, email_op>>
extVars == <<procVars, userVars, tagRowVars, valueVars, textVars>>
nonDbVars == <<ruleVars, entityVars, legacyVars, extVars>>

IdleTask == Task(1, "t1", "d1", CREATED, 1, None)

IdleCall ==
    [fn |-> "init", user_id |-> None, is_admin |-> FALSE, task |-> IdleTask,
     new_status |-> CREATED, ret |-> FALSE, err |-> "none"]

IdleOp ==
    [op |-> "init", user_id |-> None, is_admin |-> FALSE,
     new_status |-> CREATED, new_title |-> "t1", assignee_id |-> None,
     err |-> "none", pre |-> IdleTask]

\* ------------------------------------------------ rule evaluations (pure)
Eval_validate_transition(t, new_status) ==
    /\ call' = [IdleCall EXCEPT !.fn = "validate_transition", !.task = t,
                                !.new_status = new_status,
                                !.err = validate_transition(t, new_status)]
    /\ UNCHANGED <<entityVars, legacyVars, dbVars, extVars>>

Eval_can_edit_task(user_id, t, is_admin) ==
    /\ call' = [IdleCall EXCEPT !.fn = "can_edit_task", !.task = t,
                                !.user_id = user_id, !.is_admin = is_admin,
                                !.ret = can_edit_task(user_id, t, is_admin)]
    /\ UNCHANGED <<entityVars, legacyVars, dbVars, extVars>>

Eval_can_delete_task(user_id, t, is_admin) ==
    /\ call' = [IdleCall EXCEPT !.fn = "can_delete_task", !.task = t,
                                !.user_id = user_id, !.is_admin = is_admin,
                                !.ret = can_delete_task(user_id, t, is_admin)]
    /\ UNCHANGED <<entityVars, legacyVars, dbVars, extVars>>

Eval_can_change_assignee(user_id, t, is_admin) ==
    /\ call' = [IdleCall EXCEPT !.fn = "can_change_assignee", !.task = t,
                                !.user_id = user_id, !.is_admin = is_admin,
                                !.ret = can_change_assignee(user_id, t, is_admin)]
    /\ UNCHANGED <<entityVars, legacyVars, dbVars, extVars>>

\* --------------------------------------------------- entity mutator calls
Apply(op, r, user_id, is_admin, new_status, new_title, assignee_id) ==
    /\ task' = r.task
    /\ lastOp' = [op |-> op, user_id |-> user_id, is_admin |-> is_admin,
                  new_status |-> new_status, new_title |-> new_title,
                  assignee_id |-> assignee_id, err |-> r.err, pre |-> task]
    /\ UNCHANGED <<ruleVars, legacyVars, dbVars, extVars>>

Call_update_title(new_title, user_id, is_admin) ==
    Apply("update_title", Task_update_title(task, new_title, user_id, is_admin),
          user_id, is_admin, CREATED, new_title, None)

Call_change_status(new_status, user_id, is_admin) ==
    Apply("change_status", Task_change_status(task, new_status, user_id, is_admin),
          user_id, is_admin, new_status, "t1", None)

Call_assign_to(assignee_id, user_id, is_admin) ==
    Apply("assign_to", Task_assign_to(task, assignee_id, user_id, is_admin),
          user_id, is_admin, CREATED, "t1", assignee_id)

Call_start_work(user_id, is_admin) ==
    Apply("start_work", Task_start_work(task, user_id, is_admin),
          user_id, is_admin, CREATED, "t1", None)

Call_Legacy_start_work(user_id) ==
    /\ legacyTask' = Legacy_start_work(legacyTask, user_id).task
    /\ legacyOp' = [IdleOp EXCEPT !.op = "start_work", !.user_id = user_id,
                                  !.err = Legacy_start_work(legacyTask, user_id).err,
                                  !.pre = legacyTask]
    /\ UNCHANGED <<ruleVars, entityVars, dbVars, extVars>>


\* ------------------------------------------------------------ the store
\* ids the task sequence hands out, rows of table "user", rows of
\* table task_status (migration 002 inserts four, ids 1..4)
TaskIds == 1..MaxTasks
DbUsers == DOMAIN db_user
TO_DO_ID == 1
IN_PROGRESS_ID == 2
DONE_ID == 3
CANCELLED_ID == 4
StatusRows == {TO_DO_ID, IN_PROGRESS_ID, DONE_ID, CANCELLED_ID}

\* what a request can carry: 0 is an int with no task_status row,
\* MaxDbUser + 1 is an int with no user row
ReqStatusIds == 0..4
ReqUserIds == 1..(MaxDbUser + 1)
ReqTaskIds == 1..(MaxTasks + 1)

\* rows of table tag, and the attachment ids a request can name
DbTags == DOMAIN db_tagrow
ReqTagIds == 1..(MaxDbTag + 1)
ReqAttIds == 1..(MaxAtt + 1)
NoTitle == "<None>"

\* calendar days a deadline can name; a request may leave a deadline out
Days == 1..MaxDay
ReqDays == Days \cup {None}

Stored == DOMAIN db_task

Row(title, status_id, creator_id, deadline_start, deadline_end) ==
    [title |-> title, status_id |-> status_id, creator_id |-> creator_id,
     deadline_start |-> deadline_start, deadline_end |-> deadline_end]

\* arg: the second id of a link or attachment call; rows: the row count
\* of the status tag execute() returns ("INSERT 0 1", "DELETE 0")
\* body: the JSON body of a 2xx reply of a user endpoint (UserResponse);
\* req: what the HTTP request of the reply carried
NoBody == [id |-> None, username |-> None, email |-> None]
NoReq == [username |-> None, email |-> None, given |-> FALSE, fault |-> FALSE]

HttpReply(op, id, code, body, req) ==
    [op |-> op, task_id |-> id, arg |-> None, rows |-> None, code |-> code,
     body |-> body, req |-> req]

ReplyRows(op, task_id, arg, rows, code) ==
    [op |-> op, task_id |-> task_id, arg |-> arg, rows |-> rows, code |-> code,
     body |-> NoBody, req |-> NoReq]

ReplyArg(op, task_id, arg, code) == ReplyRows(op, task_id, arg, None, code)

Reply(op, task_id, code) == ReplyArg(op, task_id, None, code)

\* foreign keys of table task: status_id -> task_status.id, creator_id -> user.id
TaskFkOk(status_id, creator_id) ==
    status_id \in StatusRows /\ creator_id \in DbUsers

\* INSERT INTO task ... RETURNING: the sequence value is consumed even
\* when the statement fails; yields the outcome and the table afterwards
InsertTask(title, status_id, creator_id, deadline_start, deadline_end) ==
    IF TaskFkOk(status_id, creator_id)
    THEN [err |-> "none",
          table |-> [i \in Stored \cup {next_id} |->
                        IF i = next_id
                        THEN Row(title, status_id, creator_id,
                                 deadline_start, deadline_end)
                        ELSE db_task[i]]]
    ELSE [err |-> "ForeignKeyViolationError", table |-> db_task]

\* the UPDATE with its result not looked at: no row matched is no error
UpdateTask_unchecked(task_id, title, status_id, deadline_start, deadline_end) ==
    IF task_id \notin Stored
    THEN [err |-> "none", table |-> db_task]
    ELSE IF status_id \notin StatusRows
    THEN [err |-> "ForeignKeyViolationError", table |-> db_task]
    ELSE [err |-> "none",
          table |-> [db_task EXCEPT ![task_id] =
                        Row(title, status_id, db_task[task_id].creator_id,
                            deadline_start, deadline_end)]]

\* UPDATE task SET ... WHERE id = $n: no row matched, or the new row
\* violates the status foreign key, or the row is replaced; the table has
\* no CHECK constraint on the two deadline columns
UpdateTask(task_id, title, status_id, deadline_start, deadline_end) ==
    IF task_id \notin Stored
    THEN [err |-> "norow", table |-> db_task]
    ELSE IF status_id \notin StatusRows
    THEN [err |-> "ForeignKeyViolationError", table |-> db_task]
    ELSE [err |-> "none",
          table |-> [db_task EXCEPT ![task_id] =
                        Row(title, status_id, db_task[task_id].creator_id,
                            deadline_start, deadline_end)]]

\* DELETE FROM task WHERE id = $1
DeleteTask(task_id) ==
    [i \in Stored \ {task_id} |-> db_task[i]]

\* the foreign key without ON DELETE CASCADE, and nothing enforcing it
CascadeAssignee_none(task_id) == db_assignee

\* task_assignee.task_id references task.id ON DELETE CASCADE
CascadeAssignee(task_id) ==
    {l \in db_assignee : l[1] # task_id}

\* task_tag.task_id references task.id ON DELETE CASCADE
CascadeTag(task_id) ==
    {l \in db_tag : l[1] # task_id}

\* ---- strings: a str is the sequence of its characters
Whitespace == {" ", "\t"}

Chars(n, c) == [i \in 1..n |-> c]

\* str.strip(): leading and trailing whitespace removed
RECURSIVE LStrip(_)
LStrip(s) ==
    IF s = << >> THEN s
    ELSE IF Head(s) \in Whitespace THEN LStrip(Tail(s)) ELSE s

RECURSIVE RStrip(_)
RStrip(s) ==
    IF s = << >> THEN s
    ELSE IF s[Len(s)] \in Whitespace THEN RStrip(SubSeq(s, 1, Len(s) - 1))
    ELSE s

Strip(s) == RStrip(LStrip(s))

\* attachment.task_id references task.id ON DELETE CASCADE
Attachments == DOMAIN db_attachment

\* a row of table attachment: no CHECK constraint, size_bytes nullable
AttachmentRow(task_id, filename, storage_path, size_bytes) ==
    [task_id |-> task_id, filename |-> filename,
     storage_path |-> storage_path, size_bytes |-> size_bytes]

AttRow(task_id) == AttachmentRow(task_id, <<"f">>, <<"p">>, 0)

CascadeAttachment(task_id) ==
    [a \in {b \in Attachments : db_attachment[b].task_id # task_id} |->
        db_attachment[a]]

\* the INSERT without its ON CONFLICT clause: the primary key
\* (task_id, other_id) rejects a second row
InsertLink_no_on_conflict(links, tasks, others, task_id, other_id) ==
    IF task_id \notin tasks \/ other_id \notin others
    THEN [err |-> "ForeignKeyViolationError", links |-> links]
    ELSE IF <<task_id, other_id>> \in links
    THEN [err |-> "UniqueViolationError", links |-> links]
    ELSE [err |-> "none", links |-> links \cup {<<task_id, other_id>>}]

\* INSERT INTO <link table> ... ON CONFLICT DO NOTHING into the rows
\* links; both columns are foreign keys, to the task ids tasks and to
\* the ids others
InsertLink(links, tasks, others, task_id, other_id) ==
    IF task_id \in tasks /\ other_id \in others
    THEN [err |-> "none", links |-> links \cup {<<task_id, other_id>>}]
    ELSE [err |-> "ForeignKeyViolationError", links |-> links]

\* DELETE FROM <link table> WHERE task_id = $1 AND <other>_id = $2
DeleteLink(links, task_id, other_id) == links \ {<<task_id, other_id>>}

\* rows a statement added or removed
RowCount(before, after) ==
    Cardinality((before \ after) \cup (after \ before))

\* the statements of a list of links, in order, up to the first that raises
RECURSIVE InsertLinks(_, _, _, _, _)
InsertLinks(links, tasks, others, task_id, ids) ==
    IF ids = << >> THEN [err |-> "none", links |-> links]
    ELSE LET r == InsertLink(links, tasks, others, task_id, Head(ids)) IN
         IF r.err # "none" THEN r
         ELSE InsertLinks(r.links, tasks, others, task_id, Tail(ids))

\* ---- api/routers/tasks.py
\* fault: the connection raises something other than a constraint
\* violation when the statement is sent, and the statement changes nothing
TaskReq(given, fault) ==
    [username |-> None, email |-> None, given |-> given, fault |-> fault]

Router_create_task(title, status_id, creator_id, deadline_start, deadline_end, fault) ==
    /\ next_id <= MaxTasks
    /\ IF fault
       THEN /\ response' = HttpReply("POST /tasks", None, "500", NoBody,
                                     TaskReq(TRUE, fault))
            /\ UNCHANGED <<db_task, next_id>>
       ELSE LET r == InsertTask(title, status_id, creator_id,
                                deadline_start, deadline_end) IN
            /\ db_task' = r.table
            /\ next_id' = next_id + 1
            /\ response' = HttpReply("POST /tasks", next_id,
                                     IF r.err = "none" THEN "201" ELSE "400",
                                     NoBody, TaskReq(TRUE, fault))
    /\ UNCHANGED <<db_assignee, tagAttVars, nonDbVars>>

\* no try block around the SELECT: the exception of a fault leaves the
\* handler and the server answers 500
Router_get_task(task_id, fault) ==
    /\ response' = HttpReply("GET /tasks", task_id,
                             CASE fault -> "500"
                               [] ~fault /\ task_id \in Stored -> "200"
                               [] OTHER -> "404",
                             NoBody, TaskReq(TRUE, fault))
    /\ UNCHANGED <<db_task, db_assignee, next_id, tagAttVars, nonDbVars>>

Router_update_task(task_id, title, status_id, deadline_start, deadline_end, fault) ==
    /\ LET given == ~(/\ title = NoTitle /\ status_id = None
                      /\ deadline_start = None /\ deadline_end = None)
           cur == IF task_id \in Stored THEN db_task[task_id]
                  ELSE Row("t1", TO_DO_ID, 1, None, None)
           r == UpdateTask(task_id,
                    IF title # NoTitle THEN title ELSE cur.title,
                    IF status_id # None THEN status_id ELSE cur.status_id,
                    IF deadline_start # None THEN deadline_start
                    ELSE cur.deadline_start,
                    IF deadline_end # None THEN deadline_end
                    ELSE cur.deadline_end)
       IN IF ~given \/ fault
          THEN /\ response' = HttpReply("PUT /tasks", task_id,
                                        IF ~given THEN "400" ELSE "500",
                                        NoBody, TaskReq(given, fault))
               /\ UNCHANGED db_task
          ELSE /\ db_task' = r.table
               /\ response' = HttpReply("PUT /tasks", task_id,
                      CASE r.err = "none" -> "200"
                        [] r.err = "norow" -> "404"
                        [] OTHER -> "400",
                      NoBody, TaskReq(given, fault))
    /\ UNCHANGED <<db_assignee, next_id, tagAttVars, nonDbVars>>

Router_delete_task(task_id, fault) ==
    /\ IF fault
       THEN /\ response' = HttpReply("DELETE /tasks", task_id, "500", NoBody,
                                     TaskReq(TRUE, fault))
            /\ UNCHANGED <<db_task, db_assignee, db_tag, db_attachment>>
       ELSE /\ db_task' = DeleteTask(task_id)
            /\ db_assignee' = CascadeAssignee(task_id)
            /\ db_tag' = CascadeTag(task_id)
            /\ db_attachment' = CascadeAttachment(task_id)
            /\ response' = HttpReply("DELETE /tasks", task_id,
                      IF task_id \in Stored THEN "204" ELSE "404",
                      NoBody, TaskReq(TRUE, fault))
    /\ UNCHANGED <<next_id, next_att_id, nonDbVars>>


\* ---- domain/repositories/task_repository_impl.py
\* _row_to_task(row): the scalar columns, and three empty collections
row_to_task(id, row) ==
    [id |-> id, title |-> row.title, status_id |-> row.status_id,
     creator_id |-> row.creator_id, deadline_start |-> row.deadline_start,
     deadline_end |-> row.deadline_end,
     assignees |-> {}, tags |-> {}, attachments |-> {}]

\* _load_related_entities(task): the users, tags and attachments that the
\* link tables and table attachment hold for task.id
load_related_entities(t, assignee_links, tag_links, attachment_rows) ==
    [t EXCEPT !.assignees = {l[2] : l \in {x \in assignee_links : x[1] = t.id}},
              !.tags = {l[2] : l \in {x \in tag_links : x[1] = t.id}},
              !.attachments = {a \in DOMAIN attachment_rows :
                                  attachment_rows[a].task_id = t.id}]

\* what a repository call returns
ReplyTask(op, task_id, code, returned) ==
    [Reply(op, task_id, code) EXCEPT !.body = returned]

\* create(task): the INSERT, then one assign_task_to_user per assignee and
\* one add_tag per tag, each its own statement on a connection that is in
\* no transaction; the first statement that raises ends the call; the Task
\* returned is the one built from the inserted row
Repo_create(title, status_id, creator_id, deadline_start, deadline_end, assignees, tags) ==
    /\ next_id <= MaxTasks
    /\ LET r == InsertTask(title, status_id, creator_id,
                           deadline_start, deadline_end)
           a == IF r.err = "none"
                THEN InsertLinks(db_assignee, DOMAIN r.table, DbUsers,
                                 next_id, assignees)
                ELSE [err |-> r.err, links |-> db_assignee]
           t == IF a.err = "none"
                THEN InsertLinks(db_tag, DOMAIN r.table, DbTags, next_id, tags)
                ELSE [err |-> a.err, links |-> db_tag]
       IN /\ db_task' = r.table
          /\ db_assignee' = a.links
          /\ db_tag' = t.links
          /\ next_id' = next_id + 1
          /\ response' =
                 IF t.err = "none"
                 THEN ReplyTask("repo.create", next_id, "ok",
                                row_to_task(next_id, r.table[next_id]))
                 ELSE Reply("repo.create", next_id, t.err)
    /\ UNCHANGED <<db_attachment, next_att_id, nonDbVars>>

\* get_by_id(task_id): the Task, or None when no row has the id
Repo_get_by_id(task_id) ==
    /\ response' =
           IF task_id \in Stored
           THEN ReplyTask("repo.get_by_id", task_id, "Task",
                    load_related_entities(row_to_task(task_id, db_task[task_id]),
                                          db_assignee, db_tag, db_attachment))
           ELSE Reply("repo.get_by_id", task_id, "None")
    /\ UNCHANGED <<db_task, db_assignee, next_id, tagAttVars, nonDbVars>>

Repo_update(task_id, title, status_id, deadline_start, deadline_end) ==
    /\ LET r == UpdateTask(task_id, title, status_id,
                           deadline_start, deadline_end) IN
       /\ db_task' = r.table
       /\ response' = Reply("repo.update", task_id,
              CASE r.err = "none" -> "ok"
                [] r.err = "norow" -> "ValueError"
                [] OTHER -> r.err)
    /\ UNCHANGED <<db_assignee, next_id, tagAttVars, nonDbVars>>

Repo_delete(task_id) ==
    /\ db_task' = DeleteTask(task_id)
    /\ db_assignee' = CascadeAssignee(task_id)
    /\ db_tag' = CascadeTag(task_id)
    /\ db_attachment' = CascadeAttachment(task_id)
    /\ response' = Reply("repo.delete", task_id,
                         IF task_id \in Stored THEN "ok" ELSE "ValueError")
    /\ UNCHANGED <<next_id, next_att_id, nonDbVars>>

\* UPDATE task SET status_id = $1 WHERE id = $2
ChangeStatus(task_id, status_id) ==
    UpdateTask(task_id,
               IF task_id \in Stored THEN db_task[task_id].title ELSE "t1",
               status_id,
               IF task_id \in Stored THEN db_task[task_id].deadline_start
               ELSE None,
               IF task_id \in Stored THEN db_task[task_id].deadline_end
               ELSE None)

Repo_change_status(task_id, status_id) ==
    /\ LET r == ChangeStatus(task_id, status_id) IN
       /\ db_task' = r.table
       /\ response' = Reply("repo.change_status", task_id,
              CASE r.err = "none" -> "ok"
                [] r.err = "norow" -> "ValueError"
                [] OTHER -> r.err)
    /\ UNCHANGED <<db_assignee, next_id, tagAttVars, nonDbVars>>

Repo_assign_task_to_user(task_id, user_id) ==
    /\ LET r == InsertLink(db_assignee, Stored, DbUsers, task_id, user_id) IN
       /\ db_assignee' = r.links
       /\ response' = ReplyRows("repo.assign_task_to_user", task_id, user_id,
                                RowCount(db_assignee, r.links),
                                IF r.err = "none" THEN "ok" ELSE r.err)
    /\ UNCHANGED <<db_task, next_id, tagAttVars, nonDbVars>>

Repo_unassign_task_from_user(task_id, user_id) ==
    /\ db_assignee' = DeleteLink(db_assignee, task_id, user_id)
    /\ response' = ReplyRows("repo.unassign_task_from_user", task_id, user_id,
           RowCount(db_assignee, DeleteLink(db_assignee, task_id, user_id)),
           "ok")
    /\ UNCHANGED <<db_task, next_id, tagAttVars, nonDbVars>>


Repo_add_tag(task_id, tag_id) ==
    /\ LET r == InsertLink(db_tag, Stored, DbTags, task_id, tag_id) IN
       /\ db_tag' = r.links
       /\ response' = ReplyRows("repo.add_tag", task_id, tag_id,
                                RowCount(db_tag, r.links),
                                IF r.err = "none" THEN "ok" ELSE r.err)
    /\ UNCHANGED <<db_task, db_assignee, next_id, db_attachment, next_att_id,
                   nonDbVars>>

Repo_remove_tag(task_id, tag_id) ==
    /\ db_tag' = DeleteLink(db_tag, task_id, tag_id)
    /\ response' = ReplyRows("repo.remove_tag", task_id, tag_id,
           RowCount(db_tag, DeleteLink(db_tag, task_id, tag_id)), "ok")
    /\ UNCHANGED <<db_task, db_assignee, next_id, db_attachment, next_att_id,
                   nonDbVars>>

\* UPDATE attachment SET task_id = $1 WHERE id = $2: "UPDATE 0" raises
\* ValueError; a matched row is checked against the task foreign key
Repo_add_attachment(task_id, attachment_id) ==
    /\ IF attachment_id \notin Attachments
       THEN /\ UNCHANGED db_attachment
            /\ response' = ReplyArg("repo.add_attachment", task_id,
                                    attachment_id, "ValueError")
       ELSE IF task_id \notin Stored
       THEN /\ UNCHANGED db_attachment
            /\ response' = ReplyArg("repo.add_attachment", task_id,
                                    attachment_id, "ForeignKeyViolationError")
       ELSE /\ db_attachment' =
                   [db_attachment EXCEPT ![attachment_id].task_id = task_id]
            /\ response' = ReplyArg("repo.add_attachment", task_id,
                                    attachment_id, "ok")
    /\ UNCHANGED <<db_task, db_assignee, next_id, db_tag, next_att_id,
                   nonDbVars>>

\* DELETE FROM attachment WHERE id = $1 AND task_id = $2: "DELETE 0"
\* raises ValueError
Repo_remove_attachment(task_id, attachment_id) ==
    /\ IF /\ attachment_id \in Attachments
          /\ db_attachment[attachment_id].task_id = task_id
       THEN /\ db_attachment' =
                   [a \in Attachments \ {attachment_id} |-> db_attachment[a]]
            /\ response' = ReplyArg("repo.remove_attachment", task_id,
                                    attachment_id, "ok")
       ELSE /\ UNCHANGED db_attachment
            /\ response' = ReplyArg("repo.remove_attachment", task_id,
                                    attachment_id, "ValueError")
    /\ UNCHANGED <<db_task, db_assignee, next_id, db_tag, next_att_id,
                   nonDbVars>>

\* ---- domain/models/attachment.py
\* no Attachment constructed yet; afterwards the set of the last one
NoAttachment == {}

\* Attachment(..., filename, ..., size_bytes, storage_path, ...): every
\* argument is assigned to its attribute
Attachment_init(filename, size_bytes, storage_path) ==
    [filename |-> filename, storage_path |-> storage_path,
     size_bytes |-> size_bytes]

Call_Attachment(filename, size_bytes, storage_path) ==
    /\ attachment' = {Attachment_init(filename, size_bytes, storage_path)}
    /\ UNCHANGED <<durations, time_log, value_op, ruleVars, entityVars,
                   legacyVars, dbVars, procVars, userVars, tagRowVars,
                   textVars>>

\* ---- api/schemas/attachment.py
\* AttachmentCreate: filename and storage_path are stripped and must keep
\* a character, size_bytes is absent or >= 0
AttachmentCreate(filename, storage_path, size_bytes) ==
    IF Strip(filename) = << >> \/ Len(Strip(filename)) > 255
          \/ Strip(storage_path) = << >>
          \/ (size_bytes # None /\ size_bytes < 0)
    THEN [err |-> "422", filename |-> << >>, storage_path |-> << >>,
          size_bytes |-> None]
    ELSE [err |-> "none", filename |-> Strip(filename),
          storage_path |-> Strip(storage_path), size_bytes |-> size_bytes]

\* ---- api/routers/attachments.py
\* the body is validated before the handler runs; INSERT INTO attachment
\* (task_id, filename, content_type, storage_path, size_bytes) RETURNING id
Router_create_attachment(task_id, filename, storage_path, size_bytes) ==
    LET body == AttachmentCreate(filename, storage_path, size_bytes) IN
    /\ next_att_id <= MaxAtt
    /\ IF body.err # "none"
       THEN /\ UNCHANGED <<db_attachment, next_att_id>>
            /\ response' = ReplyArg("POST /attachments", task_id, None, "422")
       ELSE IF task_id \in Stored
       THEN /\ db_attachment' =
                   [a \in Attachments \cup {next_att_id} |->
                       IF a = next_att_id
                       THEN AttachmentRow(task_id, body.filename,
                                          body.storage_path, body.size_bytes)
                       ELSE db_attachment[a]]
            /\ response' = ReplyArg("POST /attachments", task_id,
                                    next_att_id, "201")
            /\ next_att_id' = next_att_id + 1
       ELSE /\ UNCHANGED db_attachment
            /\ response' = ReplyArg("POST /attachments", task_id,
                                    next_att_id, "400")
            /\ next_att_id' = next_att_id + 1
    /\ UNCHANGED <<db_task, db_assignee, next_id, db_tag, nonDbVars>>

\* ---- api/routers/users.py, api/routers/tags.py
\* a row of table "user": password_hash holds the submitted password
UserRow(username, email, password_hash) ==
    [username |-> username, email |-> email, password_hash |-> password_hash]

\* usernames, emails, passwords and tag names are numbered
Names == 1..MaxName
ReqNames == Names \cup {None}

\* table "user" with UNIQUE (username) only
UniqueOk_username_only(tbl, id, username, email) ==
    \A j \in DOMAIN tbl \ {id} : tbl[j].username # username

\* UNIQUE (username) and UNIQUE (email) of table "user", for the row id
UniqueOk(tbl, id, username, email) ==
    \A j \in DOMAIN tbl \ {id} :
        tbl[j].username # username /\ tbl[j].email # email

\* the response model with the stored credential in it
UserResponse_with_password(id, row) ==
    [id |-> id, username |-> row.username, email |-> row.email,
     password_hash |-> row.password_hash]

\* UserResponse(id, username, email, created_at, last_login), built from
\* RETURNING id, username, email, created_at, last_login
UserResponse(id, row) ==
    [id |-> id, username |-> row.username, email |-> row.email]

\* each handler on one table: the table afterwards and the reply
Create_user(tbl, nid, username, email, password, fault) ==
    LET req == TaskReq(TRUE, fault) IN
    IF fault
    THEN [table |-> tbl,
          reply |-> HttpReply("POST /users", None, "500", NoBody, req)]
    ELSE IF ~UniqueOk(tbl, nid, username, email)
    THEN [table |-> tbl,
          reply |-> HttpReply("POST /users", None, "409", NoBody, req)]
    ELSE [table |-> [i \in DOMAIN tbl \cup {nid} |->
                        IF i = nid THEN UserRow(username, email, password)
                        ELSE tbl[i]],
          reply |-> HttpReply("POST /users", nid, "201",
                       UserResponse(nid, UserRow(username, email, password)),
                       req)]

Get_user(tbl, user_id, fault) ==
    LET req == TaskReq(TRUE, fault) IN
    [table |-> tbl,
     reply |-> CASE fault -> HttpReply("GET /users", user_id, "500", NoBody, req)
                 [] ~fault /\ user_id \in DOMAIN tbl ->
                        HttpReply("GET /users", user_id, "200",
                                  UserResponse(user_id, tbl[user_id]), req)
                 [] OTHER -> HttpReply("GET /users", user_id, "404", NoBody, req)]

Update_user(tbl, user_id, username, email, password, fault) ==
    LET given == ~(username = None /\ email = None /\ password = None)
        req == TaskReq(given, fault)
        cur == IF user_id \in DOMAIN tbl THEN tbl[user_id] ELSE UserRow(1, 1, 1)
        new == UserRow(IF username # None THEN username ELSE cur.username,
                       IF email # None THEN email ELSE cur.email,
                       IF password # None THEN password ELSE cur.password_hash)
    IN IF ~given
       THEN [table |-> tbl,
             reply |-> HttpReply("PUT /users", user_id, "400", NoBody, req)]
       ELSE IF fault
       THEN [table |-> tbl,
             reply |-> HttpReply("PUT /users", user_id, "500", NoBody, req)]
       ELSE IF user_id \notin DOMAIN tbl
       THEN [table |-> tbl,
             reply |-> HttpReply("PUT /users", user_id, "404", NoBody, req)]
       ELSE IF ~UniqueOk(tbl, user_id, new.username, new.email)
       THEN [table |-> tbl,
             reply |-> HttpReply("PUT /users", user_id, "409", NoBody, req)]
       ELSE [table |-> [tbl EXCEPT ![user_id] = new],
             reply |-> HttpReply("PUT /users", user_id, "200",
                                 UserResponse(user_id, new), req)]

\* task.creator_id references "user".id ON DELETE RESTRICT
Delete_user(tbl, user_id, fault) ==
    LET req == TaskReq(TRUE, fault) IN
    IF fault
    THEN [table |-> tbl,
          reply |-> HttpReply("DELETE /users", user_id, "500", NoBody, req)]
    ELSE IF user_id \notin DOMAIN tbl
    THEN [table |-> tbl,
          reply |-> HttpReply("DELETE /users", user_id, "404", NoBody, req)]
    ELSE IF \E i \in Stored : db_task[i].creator_id = user_id
    THEN [table |-> tbl,
          reply |-> HttpReply("DELETE /users", user_id, "400", NoBody, req)]
    ELSE [table |-> [i \in DOMAIN tbl \ {user_id} |-> tbl[i]],
          reply |-> HttpReply("DELETE /users", user_id, "204", NoBody, req)]

\* each endpoint, answered in both runs: the second run gets password2
Router_create_user(username, email, password, password2, fault) ==
    /\ next_user_id <= MaxDbUser
    /\ LET r == Create_user(db_user, next_user_id, username, email, password,
                            fault)
           r2 == Create_user(db_user2, next_user_id, username, email,
                             password2, fault)
       IN /\ db_user' = r.table /\ response' = r.reply
          /\ db_user2' = r2.table /\ response2' = r2.reply
    /\ next_user_id' = IF fault THEN next_user_id ELSE next_user_id + 1
    /\ UNCHANGED <<db_task, db_assignee, next_id, tagAttVars, ruleVars,
                   entityVars, legacyVars, procVars, tagRowVars, valueVars,
                   textVars>>

Router_get_user(user_id, fault) ==
    /\ response' = Get_user(db_user, user_id, fault).reply
    /\ response2' = Get_user(db_user2, user_id, fault).reply
    /\ UNCHANGED <<db_user, db_user2, next_user_id, db_task, db_assignee,
                   next_id, tagAttVars, ruleVars, entityVars, legacyVars,
                   procVars, tagRowVars, valueVars,
                   textVars>>

Router_update_user(user_id, username, email, password, password2, fault) ==
    /\ LET r == Update_user(db_user, user_id, username, email, password, fault)
           r2 == Update_user(db_user2, user_id, username, email, password2,
                             fault)
       IN /\ db_user' = r.table /\ response' = r.reply
          /\ db_user2' = r2.table /\ response2' = r2.reply
    /\ UNCHANGED <<next_user_id, db_task, db_assignee, next_id, tagAttVars,
                   ruleVars, entityVars, legacyVars, procVars, tagRowVars, valueVars,
                   textVars>>

\* task_assignee.user_id references "user".id ON DELETE CASCADE
Router_delete_user(user_id, fault) ==
    /\ LET r == Delete_user(db_user, user_id, fault)
           r2 == Delete_user(db_user2, user_id, fault)
       IN /\ db_user' = r.table /\ response' = r.reply
          /\ db_user2' = r2.table /\ response2' = r2.reply
          /\ db_assignee' = IF r.reply.code = "204"
                            THEN {l \in db_assignee : l[2] # user_id}
                            ELSE db_assignee
    /\ UNCHANGED <<next_user_id, db_task, next_id, tagAttVars, ruleVars,
                   entityVars, legacyVars, procVars, tagRowVars, valueVars,
                   textVars>>

\* INSERT INTO tag (name): UNIQUE (name)
Router_create_tag(name, fault) ==
    /\ next_tag_id <= MaxDbTag + 1
    /\ LET req == TaskReq(TRUE, fault) IN
       IF fault
       THEN /\ response' = HttpReply("POST /tags", None, "500", NoBody, req)
            /\ UNCHANGED <<db_tagrow, next_tag_id>>
       ELSE IF \E t \in DbTags : db_tagrow[t] = name
       THEN /\ response' = HttpReply("POST /tags", None, "409", NoBody, req)
            /\ next_tag_id' = next_tag_id + 1
            /\ UNCHANGED db_tagrow
       ELSE /\ response' = HttpReply("POST /tags", next_tag_id, "201", NoBody,
                                     req)
            /\ next_tag_id' = next_tag_id + 1
            /\ db_tagrow' = [t \in DbTags \cup {next_tag_id} |->
                                IF t = next_tag_id THEN name ELSE db_tagrow[t]]
    /\ UNCHANGED <<db_task, db_assignee, next_id, tagAttVars, ruleVars,
                   entityVars, legacyVars, procVars, userVars,
                   valueVars, textVars>>

\* ---- the Task model the repository and the service load (status_id,
\* ---- assignees); its predicates follow the rules of the design
Assignees(task_id) == {l[2] : l \in {m \in db_assignee : m[1] = task_id}}

can_be_edited_by(task_id, user_id) ==
    user_id = db_task[task_id].creator_id \/ user_id \in Assignees(task_id)

can_be_completed(task_id) == db_task[task_id].status_id = IN_PROGRESS_ID

can_be_cancelled(task_id) ==
    db_task[task_id].status_id \in {TO_DO_ID, IN_PROGRESS_ID}

can_be_in_progress(task_id) == db_task[task_id].status_id = TO_DO_ID

\* Task.__init__ of that model: a task that has both deadlines ends no
\* earlier than it starts
Task_deadlines_valid(deadline_start, deadline_end) ==
    deadline_start # None /\ deadline_end # None =>
        deadline_end >= deadline_start

\* Python truthiness of an Optional[int]
Truthy(n) == n # None /\ n # 0

\* ---- TaskRepositoryImpl on its one connection: the statement for the
\* ---- row, then asyncio.gather over the three loads
LoadOrder == <<"assignees", "tags", "attachments">>
Loaders == {LoadOrder[k] : k \in DOMAIN LoadOrder}

IdleLoads == [op |-> "idle", task_id |-> 0, st |-> [l \in Loaders |-> "idle"]]

\* gather wraps the three coroutines into tasks that the loop runs in order
Gathering(op, task_id) ==
    [op |-> op, task_id |-> task_id, st |-> [l \in Loaders |-> "ready"]]

\* the loads whose query is on db_conn and has no result yet
InFlight == {l \in Loaders : loads.st[l] = "in_flight"}

\* get_by_id(task_id): the SELECT of the row; None without a row,
\* otherwise _row_to_task and _load_related_entities
GetById_begin(task_id) ==
    /\ loads.op = "idle"
    /\ IF task_id \in Stored
       THEN /\ loads' = Gathering("repo.get_by_id", task_id)
            /\ response' = Reply("conn.fetchrow", task_id, "ok")
       ELSE /\ loads' = loads
            /\ response' = Reply("repo.get_by_id", task_id, "None")
    /\ UNCHANGED <<db_task, db_assignee, next_id, tagAttVars, proc, ruleVars,
                   entityVars, legacyVars, userVars, tagRowVars, valueVars,
                   textVars>>

\* update(task): the UPDATE ... RETURNING; ValueError without a row,
\* otherwise _row_to_task and _load_related_entities
Update_begin(task_id, title, status_id, deadline_start, deadline_end) ==
    /\ loads.op = "idle"
    /\ LET r == UpdateTask(task_id, title, status_id,
                           deadline_start, deadline_end) IN
       /\ db_task' = r.table
       /\ IF r.err = "none"
          THEN /\ loads' = Gathering("repo.update", task_id)
               /\ response' = Reply("conn.fetchrow", task_id, "ok")
          ELSE /\ loads' = loads
               /\ response' = Reply("repo.update", task_id,
                      IF r.err = "norow" THEN "ValueError" ELSE r.err)
    /\ UNCHANGED <<db_assignee, next_id, tagAttVars, proc, ruleVars,
                   entityVars, legacyVars, userVars, tagRowVars, valueVars,
                   textVars>>

\* a load runs to its "await self.db_conn.fetch(...)": the loop runs the
\* three tasks in the order gather was given them. db_conn is whatever
\* connection the repository was constructed with; a fetch called while
\* another query is in flight is either taken by it or refused
\* (asyncpg: InterfaceError, another operation is in progress)
Load_fetch(l) ==
    /\ loads.st[l] = "ready"
    /\ \A k \in DOMAIN LoadOrder :
          LoadOrder[k] = l => \A j \in 1..(k - 1) : loads.st[LoadOrder[j]] # "ready"
    /\ \E outcome \in IF InFlight = {} THEN {"in_flight"}
                       ELSE {"in_flight", "refused"} :
          loads' = [loads EXCEPT !.st[l] = outcome]
    /\ UNCHANGED <<dbVars, proc, ruleVars, entityVars, legacyVars, userVars,
                   tagRowVars, valueVars, textVars>>

\* the rows of a query in flight arrive; no task is waiting to run
Load_result(l) ==
    /\ loads.st[l] = "in_flight"
    /\ \A m \in Loaders : loads.st[m] # "ready"
    /\ loads' = [loads EXCEPT !.st[l] = "done"]
    /\ UNCHANGED <<dbVars, proc, ruleVars, entityVars, legacyVars, userVars,
                   tagRowVars, valueVars, textVars>>

\* gather returns the three lists, or raises the first exception of a load
Gather_return ==
    /\ loads.op # "idle"
    /\ \A m \in Loaders : loads.st[m] # "ready"
    /\ \/ /\ \E m \in Loaders : loads.st[m] = "refused"
          /\ response' = Reply(loads.op, loads.task_id, "InterfaceError")
       \/ /\ \A m \in Loaders : loads.st[m] = "done"
          /\ response' =
                 ReplyTask(loads.op, loads.task_id, "Task",
                     load_related_entities(
                         row_to_task(loads.task_id, db_task[loads.task_id]),
                         db_assignee, db_tag, db_attachment))
    /\ loads' = IdleLoads
    /\ UNCHANGED <<db_task, db_assignee, next_id, tagAttVars, proc, ruleVars,
                   entityVars, legacyVars, userVars, tagRowVars, valueVars,
                   textVars>>

\* ---- application/services/task_service.py
\* user_repo is not supplied by the constructor's default, so the
\* creator is checked by the foreign key only
\* the Task is constructed before the try block: its ValueError leaves
\* the service uncaught and no statement is sent
Service_create_task(title, status_id, body_creator_id, creator_id, deadline_start, deadline_end) ==
    /\ next_id <= MaxTasks
    /\ LET actual_creator_id ==
               IF Truthy(creator_id) THEN creator_id ELSE body_creator_id
           sid == IF Truthy(status_id) THEN status_id ELSE TO_DO_ID
           r == InsertTask(title, sid, actual_creator_id,
                           deadline_start, deadline_end)
       IN IF ~Task_deadlines_valid(deadline_start, deadline_end)
          THEN /\ response' = Reply("service.create_task", None, "ValueError")
               /\ UNCHANGED <<db_task, next_id>>
          ELSE /\ db_task' = r.table
               /\ next_id' = next_id + 1
               /\ response' = Reply("service.create_task", next_id,
                                    IF r.err = "none" THEN "ok" ELSE "400")
    /\ UNCHANGED <<db_assignee, tagAttVars, nonDbVars>>

Service_update_task(task_id, title, status_id, user_id, deadline_start, deadline_end) ==
    /\ IF task_id \notin Stored
       THEN /\ response' = Reply("service.update_task", task_id, "404")
            /\ UNCHANGED db_task
       ELSE IF Truthy(user_id) /\ ~can_be_edited_by(task_id, user_id)
       THEN /\ response' = Reply("service.update_task", task_id, "403")
            /\ UNCHANGED db_task
       ELSE LET cur == db_task[task_id]
                updated_deadline_start ==
                    IF deadline_start # None THEN deadline_start
                    ELSE cur.deadline_start
                updated_deadline_end ==
                    IF deadline_end # None THEN deadline_end
                    ELSE cur.deadline_end
                r == UpdateTask(task_id,
                         IF title # NoTitle THEN title ELSE cur.title,
                         IF status_id # None THEN status_id ELSE cur.status_id,
                         updated_deadline_start, updated_deadline_end)
            IN IF ~Task_deadlines_valid(updated_deadline_start,
                                        updated_deadline_end)
               THEN /\ response' = Reply("service.update_task", task_id,
                                         "ValueError")
                    /\ UNCHANGED db_task
               ELSE /\ db_task' = r.table
                    /\ response' = Reply("service.update_task", task_id,
                           IF r.err = "none" THEN "ok" ELSE "400")
    /\ UNCHANGED <<db_assignee, next_id, tagAttVars, nonDbVars>>

Service_change_task_status(task_id, new_status_id, user_id) ==
    /\ IF task_id \notin Stored
       THEN /\ response' = Reply("service.change_task_status", task_id, "404")
            /\ UNCHANGED db_task
       ELSE IF Truthy(user_id) /\ ~can_be_edited_by(task_id, user_id)
       THEN /\ response' = Reply("service.change_task_status", task_id, "403")
            /\ UNCHANGED db_task
       ELSE IF \/ new_status_id = DONE_ID /\ ~can_be_completed(task_id)
               \/ new_status_id = CANCELLED_ID /\ ~can_be_cancelled(task_id)
               \/ new_status_id = IN_PROGRESS_ID /\ ~can_be_in_progress(task_id)
       THEN /\ response' = Reply("service.change_task_status", task_id, "400")
            /\ UNCHANGED db_task
       ELSE LET r == ChangeStatus(task_id, new_status_id) IN
            /\ db_task' = r.table
            /\ response' = Reply("service.change_task_status", task_id,
                   CASE r.err = "none" -> "ok"
                     [] r.err = "norow" -> "400"
                     [] OTHER -> "500")
    /\ UNCHANGED <<db_assignee, next_id, tagAttVars, nonDbVars>>

\* ---- TaskService.change_task_status as the event loop runs it: the
\* ---- handler yields at "await get_by_id" and at "await change_status",
\* ---- and every request has its own connection
Procs == 1..MaxProc

\* alone: no other request has taken a step since this one loaded
IdleProc == [pc |-> "idle", task_id |-> 0, new_status_id |-> 0, alone |-> TRUE]
IdleProcs == [p \in Procs |-> IdleProc]

\* the requests in flight other than p see p take a step
Others(p) ==
    [q \in Procs |->
        IF q # p /\ proc[q].pc # "idle" THEN [proc[q] EXCEPT !.alone = FALSE]
        ELSE proc[q]]

\* get_by_id, then the permission check and the three guards on the
\* Task that was loaded
ChangeStatus_load(p, task_id, new_status_id, user_id) ==
    /\ proc[p].pc = "idle"
    /\ IF task_id \notin Stored
       THEN /\ response' = Reply("service.change_task_status", task_id, "404")
            /\ proc' = Others(p)
       ELSE IF Truthy(user_id) /\ ~can_be_edited_by(task_id, user_id)
       THEN /\ response' = Reply("service.change_task_status", task_id, "403")
            /\ proc' = Others(p)
       ELSE IF \/ new_status_id = DONE_ID /\ ~can_be_completed(task_id)
               \/ new_status_id = CANCELLED_ID /\ ~can_be_cancelled(task_id)
               \/ new_status_id = IN_PROGRESS_ID /\ ~can_be_in_progress(task_id)
       THEN /\ response' = Reply("service.change_task_status", task_id, "400")
            /\ proc' = Others(p)
       ELSE /\ response' = Reply("service.get_by_id", task_id, "ok")
            /\ proc' = [Others(p) EXCEPT ![p] =
                   [pc |-> "loaded", task_id |-> task_id,
                    new_status_id |-> new_status_id,
                    alone |-> \A q \in Procs \ {p} : proc[q].pc = "idle"]]
    /\ UNCHANGED <<db_task, db_assignee, next_id, tagAttVars, loads, ruleVars, entityVars,
                 legacyVars, userVars, tagRowVars, valueVars,
                 textVars>>

\* repo.change_status with the ids the request carries, then the reload
ChangeStatus_save(p) ==
    /\ proc[p].pc = "loaded"
    /\ LET r == ChangeStatus(proc[p].task_id, proc[p].new_status_id) IN
       /\ db_task' = r.table
       /\ response' = Reply("service.change_task_status", proc[p].task_id,
              CASE r.err = "none" -> "ok"
                [] r.err = "norow" -> "400"
                [] OTHER -> "500")
    /\ proc' = [Others(p) EXCEPT ![p] = IdleProc]
    /\ UNCHANGED <<db_assignee, next_id, tagAttVars, loads, ruleVars, entityVars,
                 legacyVars, userVars, tagRowVars, valueVars,
                 textVars>>

\* ---- TaskService.update_task and delete_task as the event loop runs
\* ---- them: get_by_id, then the write on the task that was loaded
\* get_by_id, the permission check, the merge of the body into the
\* loaded Task and the construction of the updated Task
UpdateTask_load(p, task_id, title, status_id, user_id, deadline_start, deadline_end) ==
    /\ proc[p].pc = "idle"
    /\ IF task_id \notin Stored
       THEN /\ response' = Reply("service.update_task", task_id, "404")
            /\ proc' = Others(p)
       ELSE IF Truthy(user_id) /\ ~can_be_edited_by(task_id, user_id)
       THEN /\ response' = Reply("service.update_task", task_id, "403")
            /\ proc' = Others(p)
       ELSE LET cur == db_task[task_id]
                updated ==
                    Row(IF title # NoTitle THEN title ELSE cur.title,
                        IF status_id # None THEN status_id ELSE cur.status_id,
                        cur.creator_id,
                        IF deadline_start # None THEN deadline_start
                        ELSE cur.deadline_start,
                        IF deadline_end # None THEN deadline_end
                        ELSE cur.deadline_end)
            IN IF ~Task_deadlines_valid(updated.deadline_start,
                                        updated.deadline_end)
               THEN /\ response' = Reply("service.update_task", task_id,
                                         "ValueError")
                    /\ proc' = Others(p)
               ELSE /\ response' = Reply("service.get_by_id", task_id, "ok")
                    /\ proc' = [Others(p) EXCEPT ![p] =
                           [pc |-> "update_loaded", task_id |-> task_id,
                            new_status_id |-> updated.status_id,
                            alone |-> \A q \in Procs \ {p} : proc[q].pc = "idle",
                            updated |-> updated]]
    /\ UNCHANGED <<db_task, db_assignee, next_id, tagAttVars, loads, ruleVars, entityVars,
                 legacyVars, userVars, tagRowVars, valueVars,
                 textVars>>

\* repo.update(updated_task): ValueError and ForeignKeyViolationError
\* are answered 400
UpdateTask_save(p) ==
    /\ proc[p].pc = "update_loaded"
    /\ LET u == proc[p].updated
           r == UpdateTask(proc[p].task_id, u.title, u.status_id,
                           u.deadline_start, u.deadline_end) IN
       /\ db_task' = r.table
       /\ response' = Reply("service.update_task", proc[p].task_id,
              IF r.err = "none" THEN "ok" ELSE "400")
    /\ proc' = [Others(p) EXCEPT ![p] = IdleProc]
    /\ UNCHANGED <<db_assignee, next_id, tagAttVars, loads, ruleVars, entityVars,
                 legacyVars, userVars, tagRowVars, valueVars,
                 textVars>>

\* repo.delete(task_id): its ValueError is answered 404
DeleteTask_write(task_id) ==
    /\ db_task' = DeleteTask(task_id)
    /\ db_assignee' = CascadeAssignee(task_id)
    /\ db_tag' = CascadeTag(task_id)
    /\ db_attachment' = CascadeAttachment(task_id)
    /\ response' = Reply("service.delete_task", task_id,
                         IF task_id \in Stored THEN "ok" ELSE "404")

\* with a user id: get_by_id and the permission check; without one the
\* handler goes to repo.delete at once
DeleteTask_load(p, task_id, user_id) ==
    /\ proc[p].pc = "idle"
    /\ IF ~Truthy(user_id)
       THEN /\ DeleteTask_write(task_id)
            /\ proc' = Others(p)
       ELSE /\ UNCHANGED <<db_task, db_assignee, db_tag, db_attachment>>
            /\ IF task_id \notin Stored
               THEN /\ response' = Reply("service.delete_task", task_id, "404")
                    /\ proc' = Others(p)
               ELSE IF ~can_be_edited_by(task_id, user_id)
               THEN /\ response' = Reply("service.delete_task", task_id, "403")
                    /\ proc' = Others(p)
               ELSE /\ response' = Reply("service.get_by_id", task_id, "ok")
                    /\ proc' = [Others(p) EXCEPT ![p] =
                           [pc |-> "delete_loaded", task_id |-> task_id,
                            new_status_id |-> 0,
                            alone |-> \A q \in Procs \ {p} : proc[q].pc = "idle"]]
    /\ UNCHANGED <<next_id, next_att_id, loads, ruleVars, entityVars,
                 legacyVars, userVars, tagRowVars, valueVars,
                 textVars>>

DeleteTask_save(p) ==
    /\ proc[p].pc = "delete_loaded"
    /\ DeleteTask_write(proc[p].task_id)
    /\ proc' = [Others(p) EXCEPT ![p] = IdleProc]
    /\ UNCHANGED <<next_id, next_att_id, loads, ruleVars, entityVars,
                 legacyVars, userVars, tagRowVars, valueVars,
                 textVars>>

\* ---- domain/value_objects/duration.py, domain/models/time_log.py
MAX_SECONDS == 86400

\* Duration(seconds): the exception raised, or the object
Duration_no_cap(seconds) ==
    IF seconds < 0
    THEN [err |-> "InvalidDurationError", seconds |-> None]
    ELSE [err |-> "none", seconds |-> seconds]

Duration(seconds) ==
    IF seconds < 0
    THEN [err |-> "InvalidDurationError", seconds |-> None]
    ELSE IF seconds > MAX_SECONDS
    THEN [err |-> "InvalidDurationError", seconds |-> None]
    ELSE [err |-> "none", seconds |-> seconds]

\* integers around both ends of the range
DurationInputs ==
    ((0 - MaxOver)..MaxOver) \cup ((MAX_SECONDS - MaxOver)..(MAX_SECONDS + MaxOver))

ValueOp(op, seconds, other, result) ==
    [op |-> op, seconds |-> seconds, other |-> other, err |-> result.err,
     result |-> result.seconds]

IdleValueOp == ValueOp("init", 0, None, [err |-> "none", seconds |-> None])

NoTimeLog == [duration |-> None]

\* d = Duration(seconds)
Call_Duration(seconds) ==
    LET d == Duration(seconds) IN
    /\ value_op' = ValueOp("Duration", seconds, None, d)
    /\ durations' = IF d.err = "none" THEN durations \cup {d.seconds}
                    ELSE durations
    /\ UNCHANGED <<time_log, attachment, ruleVars, entityVars, legacyVars, dbVars,
                   procVars, userVars, tagRowVars, textVars>>

\* __add__ returning the sum without constructing it
Duration_add_unvalidated(a, b) == [err |-> "none", seconds |-> a + b]

\* self + other of two Duration objects, by their seconds:
\* Duration(self._seconds + other._seconds)
Duration_add(a, b) == Duration(a + b)

\* a + b for two objects constructed before; sums between the two input
\* ranges are left out
Call_Duration_add(a, b) ==
    /\ a \in durations /\ b \in durations
    /\ a + b <= MaxOver \/ a + b >= MAX_SECONDS - MaxOver
    /\ LET d == Duration_add(a, b) IN
       /\ value_op' = ValueOp("Duration.__add__", a, b, d)
       /\ durations' = IF d.err = "none" THEN durations \cup {d.seconds}
                       ELSE durations
    /\ UNCHANGED <<time_log, attachment, ruleVars, entityVars, legacyVars, dbVars,
                   procVars, userVars, tagRowVars, textVars>>

\* TimeLog(id, task_id, user_id, duration, comment, logged_at) with a
\* Duration object: self.duration = duration
TimeLog_init(duration) ==
    /\ duration \in durations
    /\ time_log' = [duration |-> duration]
    /\ value_op' = ValueOp("TimeLog", duration, None,
                           [err |-> "none", seconds |-> duration])
    /\ UNCHANGED <<durations, attachment, ruleVars, entityVars, legacyVars, dbVars,
                   procVars, userVars, tagRowVars, textVars>>

\* ---- domain/value_objects/task_title.py
MAX_LENGTH == 255

\* TaskTitle(title) measuring the input as given
TaskTitle_length_before_strip(title) ==
    IF title = << >> \/ Strip(title) = << >>
    THEN [err |-> "ValueError", value |-> << >>]
    ELSE IF Len(title) > MAX_LENGTH
    THEN [err |-> "TaskTitleTooLongError", value |-> << >>]
    ELSE [err |-> "none", value |-> Strip(title)]

\* TaskTitle(title): the exception raised, or the _value of the object
TaskTitle(title) ==
    IF title = << >> \/ Strip(title) = << >>
    THEN [err |-> "ValueError", value |-> << >>]
    ELSE LET normalized == Strip(title) IN
         IF Len(normalized) > MAX_LENGTH
         THEN [err |-> "TaskTitleTooLongError", value |-> << >>]
         ELSE [err |-> "none", value |-> normalized]

\* titles of n characters, all letters or with a blank inside
TitleLengths == (0..MaxOver) \cup ((MAX_LENGTH - MaxOver)..(MAX_LENGTH + MaxOver))
TitleCores ==
    {Chars(n, "a") : n \in TitleLengths}
        \cup {<<"a", " ">> \o Chars(n - 2, "a") : n \in TitleLengths \ (0..2)}

\* the same between leading and trailing whitespace
TitleInputs ==
    {Chars(l, " ") \o c \o Chars(t, "\t") :
        l \in 0..MaxPad, t \in 0..MaxPad, c \in TitleCores}

TitleOp(op, title, result) ==
    [op |-> op, title |-> title, err |-> result.err, value |-> result.value]

IdleTitleOp == TitleOp("init", << >>, [err |-> "none", value |-> << >>])

\* t = TaskTitle(title)
Call_TaskTitle(title) ==
    LET t == TaskTitle(title) IN
    /\ title_op' = TitleOp("TaskTitle", title, t)
    /\ titles' = IF t.err = "none" THEN {t.value} ELSE titles
    /\ UNCHANGED <<emails, email_op, ruleVars, entityVars, legacyVars, dbVars,
                   procVars, userVars, tagRowVars, valueVars>>

\* ---- domain/value_objects/email.py
LowerLetters == {"a", "b", "c", "o"}
UpperLetters == {"A", "B", "C", "O"}
Letters == LowerLetters \cup UpperLetters
Digits == {"1"}

\* str.lower() on these characters
LowerOf(c) ==
    CASE c = "A" -> "a" [] c = "B" -> "b" [] c = "C" -> "c" [] c = "O" -> "o"
      [] OTHER -> c

Lower(s) == [i \in 1..Len(s) |-> LowerOf(s[i])]

\* EMAIL_PATTERN: ^[a-zA-Z0-9._%+-]+@[a-zA-Z0-9.-]+\.[a-zA-Z]{2,}$
LocalChars == Letters \cup Digits \cup {".", "_", "%", "+", "-"}
DomainChars == Letters \cup Digits \cup {".", "-"}

Email_validate(s) ==
    \E at \in 1..Len(s), dot \in 1..Len(s) :
        /\ 1 < at /\ at + 1 < dot /\ dot + 2 <= Len(s)
        /\ \A i \in 1..(at - 1) : s[i] \in LocalChars
        /\ s[at] = "@"
        /\ \A i \in (at + 1)..(dot - 1) : s[i] \in DomainChars
        /\ s[dot] = "."
        /\ \A i \in (dot + 1)..Len(s) : s[i] \in Letters

\* hash(self._value): a function of the characters of the string
Alphabet == <<" ", "\t", "@", ".", "1", "a", "b", "c", "o", "A", "B", "C", "O">>
Code(c) == CHOOSE i \in 1..Len(Alphabet) : Alphabet[i] = c

RECURSIVE StrHash(_)
StrHash(s) ==
    IF s = << >> THEN 0
    ELSE (31 * StrHash(SubSeq(s, 1, Len(s) - 1)) + Code(s[Len(s)])) % 65536

\* Email(email) storing the stripped string as typed
Email_no_lower(email) ==
    IF email = << >> \/ Strip(email) = << >>
    THEN [err |-> "InvalidEmailError", value |-> << >>]
    ELSE LET normalized == Strip(email) IN
         IF ~Email_validate(normalized)
         THEN [err |-> "InvalidEmailError", value |-> << >>]
         ELSE [err |-> "none", value |-> normalized]

\* Email(email): the exception raised, or the _value of the object
Email(email) ==
    IF email = << >> \/ Strip(email) = << >>
    THEN [err |-> "InvalidEmailError", value |-> << >>]
    ELSE LET normalized == Lower(Strip(email)) IN
         IF ~Email_validate(normalized)
         THEN [err |-> "InvalidEmailError", value |-> << >>]
         ELSE [err |-> "none", value |-> normalized]

\* addresses in every letter case, and malformed strings
WellFormed ==
    {l \o <<"@">> \o d \o <<".">> \o t :
        l \in {<<"a">>, <<"A">>}, d \in {<<"b">>, <<"B">>},
        t \in {<<"c", "o">>, <<"C", "O">>}}

Malformed ==
    {<< >>, <<"a", "b", ".", "c", "o">>, <<"a", "@", "b", "c", "o">>,
     <<"a", "@", "b", ".", "c">>, <<"@", "b", ".", "c", "o">>,
     <<"a", " ", "@", "b", ".", "c", "o">>, <<"a", "@", "b", ".", "c", "1">>,
     <<"a", "@", ".", "c", "o">>}

EmailInputs ==
    {Chars(l, " ") \o e \o t :
        l \in 0..MaxPad, t \in {<< >>, <<"\t">>}, e \in WellFormed \cup Malformed}

EmailOp(op, email, result) ==
    [op |-> op, email |-> email, err |-> result.err, value |-> result.value,
     hash |-> StrHash(result.value)]

IdleEmailOp == EmailOp("init", << >>, [err |-> "none", value |-> << >>])

\* e = Email(email); the object of the call before is kept for comparison
Call_Email(email) ==
    /\ email_op' = EmailOp("Email", email, Email(email))
    /\ emails' = IF email_op.op = "Email" /\ email_op.err = "none"
                 THEN {email_op} ELSE emails
    /\ UNCHANGED <<titles, title_op, ruleVars, entityVars, legacyVars, dbVars,
                   procVars, userVars, tagRowVars, valueVars>>

\* ------------------------------------------------------- specifications
IdleReply == Reply("init", 0, "none")

EmptyTable == [i \in {} |-> Row("t1", TO_DO_ID, 1, None, None)]

EmptyAttachments == [a \in {} |-> AttRow(1)]

\* table "user" with MaxDbUser rows and table tag with MaxDbTag rows, as
\* that many POST /users and POST /tags leave them
SeedUsers == [i \in 1..MaxDbUser |-> UserRow(i, i, 1)]
SeedTags == [i \in 1..MaxDbTag |-> i]

\* no rule evaluated yet, one freshly constructed Task, an empty store
Init ==
    /\ call = IdleCall
    /\ task \in TaskObjects /\ lastOp = IdleOp
    /\ legacyTask = task /\ legacyOp = IdleOp
    /\ db_task = EmptyTable /\ db_assignee = {} /\ next_id = 1
    /\ response = IdleReply
    /\ proc = IdleProcs /\ loads = IdleLoads
    /\ db_tag = {} /\ db_attachment = EmptyAttachments /\ next_att_id = 1
    /\ db_user = SeedUsers /\ db_user2 = SeedUsers
    /\ next_user_id = MaxDbUser + 1 /\ response2 = IdleReply
    /\ db_tagrow = SeedTags /\ next_tag_id = MaxDbTag + 1
    /\ durations = {} /\ time_log = NoTimeLog /\ value_op = IdleValueOp
    /\ attachment = NoAttachment
    /\ titles = {} /\ title_op = IdleTitleOp
    /\ emails = {} /\ email_op = IdleEmailOp

InitRules ==
    /\ call = IdleCall
    /\ task = IdleTask /\ lastOp = IdleOp
    /\ legacyTask = IdleTask /\ legacyOp = IdleOp
    /\ db_task = EmptyTable /\ db_assignee = {} /\ next_id = 1
    /\ response = IdleReply
    /\ proc = IdleProcs /\ loads = IdleLoads
    /\ db_tag = {} /\ db_attachment = EmptyAttachments /\ next_att_id = 1
    /\ db_user = SeedUsers /\ db_user2 = SeedUsers
    /\ next_user_id = MaxDbUser + 1 /\ response2 = IdleReply
    /\ db_tagrow = SeedTags /\ next_tag_id = MaxDbTag + 1
    /\ durations = {} /\ time_log = NoTimeLog /\ value_op = IdleValueOp
    /\ attachment = NoAttachment
    /\ titles = {} /\ title_op = IdleTitleOp
    /\ emails = {} /\ email_op = IdleEmailOp

\* Task.__init__ with any arguments
InitEntity ==
    /\ call = IdleCall
    /\ task \in TaskObjects /\ lastOp = IdleOp
    /\ legacyTask = IdleTask /\ legacyOp = IdleOp
    /\ db_task = EmptyTable /\ db_assignee = {} /\ next_id = 1
    /\ response = IdleReply
    /\ proc = IdleProcs /\ loads = IdleLoads
    /\ db_tag = {} /\ db_attachment = EmptyAttachments /\ next_att_id = 1
    /\ db_user = SeedUsers /\ db_user2 = SeedUsers
    /\ next_user_id = MaxDbUser + 1 /\ response2 = IdleReply
    /\ db_tagrow = SeedTags /\ next_tag_id = MaxDbTag + 1
    /\ durations = {} /\ time_log = NoTimeLog /\ value_op = IdleValueOp
    /\ attachment = NoAttachment
    /\ titles = {} /\ title_op = IdleTitleOp
    /\ emails = {} /\ email_op = IdleEmailOp

InitLegacy ==
    /\ call = IdleCall
    /\ task = IdleTask /\ lastOp = IdleOp
    /\ legacyTask \in TaskObjects /\ legacyOp = IdleOp
    /\ db_task = EmptyTable /\ db_assignee = {} /\ next_id = 1
    /\ response = IdleReply
    /\ proc = IdleProcs /\ loads = IdleLoads
    /\ db_tag = {} /\ db_attachment = EmptyAttachments /\ next_att_id = 1
    /\ db_user = SeedUsers /\ db_user2 = SeedUsers
    /\ next_user_id = MaxDbUser + 1 /\ response2 = IdleReply
    /\ db_tagrow = SeedTags /\ next_tag_id = MaxDbTag + 1
    /\ durations = {} /\ time_log = NoTimeLog /\ value_op = IdleValueOp
    /\ attachment = NoAttachment
    /\ titles = {} /\ title_op = IdleTitleOp
    /\ emails = {} /\ email_op = IdleEmailOp

\* the schema after both migrations: no task rows
InitDb ==
    /\ call = IdleCall
    /\ task = IdleTask /\ lastOp = IdleOp
    /\ legacyTask = IdleTask /\ legacyOp = IdleOp
    /\ db_task = EmptyTable /\ db_assignee = {} /\ next_id = 1
    /\ response = IdleReply
    /\ proc = IdleProcs /\ loads = IdleLoads
    /\ db_tag = {} /\ db_attachment = EmptyAttachments /\ next_att_id = 1
    /\ db_user = SeedUsers /\ db_user2 = SeedUsers
    /\ next_user_id = MaxDbUser + 1 /\ response2 = IdleReply
    /\ db_tagrow = SeedTags /\ next_tag_id = MaxDbTag + 1
    /\ durations = {} /\ time_log = NoTimeLog /\ value_op = IdleValueOp
    /\ attachment = NoAttachment
    /\ titles = {} /\ title_op = IdleTitleOp
    /\ emails = {} /\ email_op = IdleEmailOp

\* the rules, applied to every task, caller and flag
NextRules ==
    \/ \E t \in TaskObjects, s \in TaskStatus : Eval_validate_transition(t, s)
    \/ \E u \in CallerIds, t \in TaskObjects, a \in BOOLEAN :
           Eval_can_edit_task(u, t, a)
    \/ \E u \in CallerIds, t \in TaskObjects, a \in BOOLEAN :
           Eval_can_delete_task(u, t, a)
    \/ \E u \in CallerIds, t \in TaskObjects, a \in BOOLEAN :
           Eval_can_change_assignee(u, t, a)

SpecRules == InitRules /\ [][NextRules]_vars

\* a Task object, constructed with any arguments, then mutated
NextEntity ==
    \/ \E ti \in Titles, u \in CallerIds, a \in BOOLEAN :
           Call_update_title(ti, u, a)
    \/ \E s \in TaskStatus, u \in CallerIds, a \in BOOLEAN :
           Call_change_status(s, u, a)
    \/ \E n \in UserIds, u \in CallerIds, a \in BOOLEAN :
           Call_assign_to(n, u, a)
    \/ \E u \in CallerIds, a \in BOOLEAN : Call_start_work(u, a)

SpecEntity == InitEntity /\ [][NextEntity]_vars

\* a Task object of the older class
NextLegacy == \E u \in CallerIds : Call_Legacy_start_work(u)

SpecLegacy == InitLegacy /\ [][NextLegacy]_vars

\* the store, written through the routers, the repository and the service
\* by requests that carry no deadline
NextDb ==
    \/ \E ti \in Titles, s \in ReqStatusIds, c \in ReqUserIds :
           Router_create_task(ti, s, c, None, None, FALSE)
    \/ \E i \in ReqTaskIds, ti \in Titles \cup {NoTitle},
          s \in ReqStatusIds \cup {None} :
           Router_update_task(i, ti, s, None, None, FALSE)
    \/ \E i \in ReqTaskIds : Router_delete_task(i, FALSE)
    \/ \E ti \in Titles, s \in ReqStatusIds, c \in ReqUserIds :
           Repo_create(ti, s, c, None, None, << >>, << >>)
    \/ \E i \in ReqTaskIds, ti \in Titles, s \in ReqStatusIds :
           Repo_update(i, ti, s, None, None)
    \/ \E i \in ReqTaskIds : Repo_delete(i)
    \/ \E i \in ReqTaskIds, s \in ReqStatusIds : Repo_change_status(i, s)
    \/ \E i \in ReqTaskIds, u \in ReqUserIds : Repo_assign_task_to_user(i, u)
    \/ \E i \in ReqTaskIds, u \in ReqUserIds : Repo_unassign_task_from_user(i, u)
    \/ \E ti \in Titles, s \in ReqStatusIds, c \in ReqUserIds,
          u \in ReqUserIds \cup {None} :
           Service_create_task(ti, s, c, u, None, None)
    \/ \E i \in ReqTaskIds, ti \in Titles \cup {NoTitle},
          s \in ReqStatusIds \cup {None}, u \in ReqUserIds \cup {None} :
           Service_update_task(i, ti, s, u, None, None)
    \/ \E i \in ReqTaskIds, s \in ReqStatusIds, u \in ReqUserIds \cup {None} :
           Service_change_task_status(i, s, u)

SpecDb == InitDb /\ [][NextDb]_vars

\* the store, written by requests that carry deadlines
InitDeadline ==
    /\ call = IdleCall
    /\ task = IdleTask /\ lastOp = IdleOp
    /\ legacyTask = IdleTask /\ legacyOp = IdleOp
    /\ db_task = EmptyTable /\ db_assignee = {} /\ next_id = 1
    /\ response = IdleReply
    /\ proc = IdleProcs /\ loads = IdleLoads
    /\ db_tag = {} /\ db_attachment = EmptyAttachments /\ next_att_id = 1
    /\ db_user = SeedUsers /\ db_user2 = SeedUsers
    /\ next_user_id = MaxDbUser + 1 /\ response2 = IdleReply
    /\ db_tagrow = SeedTags /\ next_tag_id = MaxDbTag + 1
    /\ durations = {} /\ time_log = NoTimeLog /\ value_op = IdleValueOp
    /\ attachment = NoAttachment
    /\ titles = {} /\ title_op = IdleTitleOp
    /\ emails = {} /\ email_op = IdleEmailOp

NextDeadline ==
    \/ \E ds \in ReqDays, de \in ReqDays :
           Router_create_task("t1", TO_DO_ID, 1, ds, de, FALSE)
    \/ \E i \in ReqTaskIds, ti \in {"t2", NoTitle}, ds \in ReqDays, de \in ReqDays :
           Router_update_task(i, ti, None, ds, de, FALSE)
    \/ \E ds \in ReqDays, de \in ReqDays :
           Repo_create("t1", TO_DO_ID, 1, ds, de, << >>, << >>)
    \/ \E i \in ReqTaskIds, ds \in ReqDays, de \in ReqDays :
           Repo_update(i, "t2", TO_DO_ID, ds, de)
    \/ \E ds \in ReqDays, de \in ReqDays :
           Service_create_task("t1", TO_DO_ID, 1, None, ds, de)
    \/ \E i \in ReqTaskIds, ti \in {"t2", NoTitle}, ds \in ReqDays, de \in ReqDays :
           Service_update_task(i, ti, None, None, ds, de)

SpecDeadline == InitDeadline /\ [][NextDeadline]_vars

\* one task, and requests to change its status that the event loop
\* interleaves
InitConc ==
    /\ call = IdleCall
    /\ task = IdleTask /\ lastOp = IdleOp
    /\ legacyTask = IdleTask /\ legacyOp = IdleOp
    /\ db_task = EmptyTable /\ db_assignee = {} /\ next_id = 1
    /\ response = IdleReply
    /\ proc = IdleProcs /\ loads = IdleLoads
    /\ db_tag = {} /\ db_attachment = EmptyAttachments /\ next_att_id = 1
    /\ db_user = SeedUsers /\ db_user2 = SeedUsers
    /\ next_user_id = MaxDbUser + 1 /\ response2 = IdleReply
    /\ db_tagrow = SeedTags /\ next_tag_id = MaxDbTag + 1
    /\ durations = {} /\ time_log = NoTimeLog /\ value_op = IdleValueOp
    /\ attachment = NoAttachment
    /\ titles = {} /\ title_op = IdleTitleOp
    /\ emails = {} /\ email_op = IdleEmailOp

NextConc ==
    \/ \E c \in DbUsers : Service_create_task("t1", TO_DO_ID, c, None, None, None)
    \/ \E i \in ReqTaskIds, u \in ReqUserIds :
           Repo_assign_task_to_user(i, u)
    \/ \E p \in Procs, i \in ReqTaskIds, s \in ReqStatusIds,
          u \in ReqUserIds \cup {None} : ChangeStatus_load(p, i, s, u)
    \/ \E p \in Procs : ChangeStatus_save(p)

SpecConc == InitConc /\ [][NextConc]_vars

\* the lists of assignees and of tags a Task handed to create can carry:
\* user 1 and tag 1 have rows, the other ids have none
UserLists == {<< >>, <<1>>, <<MaxDbUser + 1>>, <<1, MaxDbUser + 1>>}
TagLists == {<< >>, <<1>>, <<MaxDbTag + 1>>}

\* the repository on its own: tasks, their links and their attachments
InitRepo ==
    /\ call = IdleCall
    /\ task = IdleTask /\ lastOp = IdleOp
    /\ legacyTask = IdleTask /\ legacyOp = IdleOp
    /\ db_task = EmptyTable /\ db_assignee = {} /\ next_id = 1
    /\ response = IdleReply
    /\ proc = IdleProcs /\ loads = IdleLoads
    /\ db_tag = {} /\ db_attachment = EmptyAttachments /\ next_att_id = 1
    /\ db_user = SeedUsers /\ db_user2 = SeedUsers
    /\ next_user_id = MaxDbUser + 1 /\ response2 = IdleReply
    /\ db_tagrow = SeedTags /\ next_tag_id = MaxDbTag + 1
    /\ durations = {} /\ time_log = NoTimeLog /\ value_op = IdleValueOp
    /\ attachment = NoAttachment
    /\ titles = {} /\ title_op = IdleTitleOp
    /\ emails = {} /\ email_op = IdleEmailOp

NextRepo ==
    \/ \E c \in {1, MaxDbUser + 1}, as \in UserLists, ts \in TagLists :
           Repo_create("t1", TO_DO_ID, c, None, None, as, ts)
    \/ \E i \in ReqTaskIds : Repo_get_by_id(i)
    \/ \E i \in ReqTaskIds : Repo_update(i, "t2", IN_PROGRESS_ID, None, None)
    \/ \E i \in ReqTaskIds : Repo_delete(i)
    \/ \E i \in ReqTaskIds, u \in {1, MaxDbUser + 1} :
           Repo_assign_task_to_user(i, u)
    \/ \E i \in ReqTaskIds : Repo_unassign_task_from_user(i, 1)
    \/ \E i \in ReqTaskIds, t \in {1, MaxDbTag + 1} : Repo_add_tag(i, t)
    \/ \E i \in ReqTaskIds : Repo_remove_tag(i, 1)
    \/ \E i \in ReqTaskIds : Router_create_attachment(i, <<"f">>, <<"p">>, 0)
    \/ \E i \in ReqTaskIds, a \in ReqAttIds : Repo_add_attachment(i, a)
    \/ \E i \in ReqTaskIds, a \in ReqAttIds : Repo_remove_attachment(i, a)

SpecRepo == InitRepo /\ [][NextRepo]_vars

\* the link tables of the repository: any user, any tag
InitLinks ==
    /\ call = IdleCall
    /\ task = IdleTask /\ lastOp = IdleOp
    /\ legacyTask = IdleTask /\ legacyOp = IdleOp
    /\ db_task = EmptyTable /\ db_assignee = {} /\ next_id = 1
    /\ response = IdleReply
    /\ proc = IdleProcs /\ loads = IdleLoads
    /\ db_tag = {} /\ db_attachment = EmptyAttachments /\ next_att_id = 1
    /\ db_user = SeedUsers /\ db_user2 = SeedUsers
    /\ next_user_id = MaxDbUser + 1 /\ response2 = IdleReply
    /\ db_tagrow = SeedTags /\ next_tag_id = MaxDbTag + 1
    /\ durations = {} /\ time_log = NoTimeLog /\ value_op = IdleValueOp
    /\ attachment = NoAttachment
    /\ titles = {} /\ title_op = IdleTitleOp
    /\ emails = {} /\ email_op = IdleEmailOp

NextLinks ==
    \/ Repo_create("t1", TO_DO_ID, 1, None, None, << >>, << >>)
    \/ \E i \in ReqTaskIds : Repo_delete(i)
    \/ \E i \in ReqTaskIds, u \in ReqUserIds : Repo_assign_task_to_user(i, u)
    \/ \E i \in ReqTaskIds, u \in ReqUserIds : Repo_unassign_task_from_user(i, u)
    \/ \E i \in ReqTaskIds, t \in ReqTagIds : Repo_add_tag(i, t)
    \/ \E i \in ReqTaskIds, t \in ReqTagIds : Repo_remove_tag(i, t)

SpecLinks == InitLinks /\ [][NextLinks]_vars

\* the HTTP endpoints of tasks, users and tags: no user and no task yet,
\* MaxDbTag tags; a statement is executed or fails on the connection
EmptyUsers == [i \in {} |-> UserRow(1, 1, 1)]
EmptyTags == [i \in {} |-> 1]

InitHttp ==
    /\ call = IdleCall
    /\ task = IdleTask /\ lastOp = IdleOp
    /\ legacyTask = IdleTask /\ legacyOp = IdleOp
    /\ db_task = EmptyTable /\ db_assignee = {} /\ next_id = 1
    /\ response = IdleReply
    /\ proc = IdleProcs /\ loads = IdleLoads
    /\ db_tag = {} /\ db_attachment = EmptyAttachments /\ next_att_id = 1
    /\ db_user = EmptyUsers /\ db_user2 = EmptyUsers
    /\ next_user_id = 1 /\ response2 = IdleReply
    /\ db_tagrow = SeedTags /\ next_tag_id = MaxDbTag + 1
    /\ durations = {} /\ time_log = NoTimeLog /\ value_op = IdleValueOp
    /\ attachment = NoAttachment
    /\ titles = {} /\ title_op = IdleTitleOp
    /\ emails = {} /\ email_op = IdleEmailOp

\* ids and names a request carries here: one that can be stored and one
\* that never is, two names that can collide
HttpUserIds == {1, MaxDbUser + 1}
HttpTaskIds == {1, MaxTasks + 1}
HttpNames == {1, MaxName}

NextHttp ==
    \/ \E u \in HttpNames, e \in HttpNames :
          Router_create_user(u, e, 1, 1, FALSE)
    \/ Router_create_user(1, 1, 1, 1, TRUE)
    \/ \E i \in HttpUserIds, f \in BOOLEAN : Router_get_user(i, f)
    \/ \E i \in HttpUserIds, u \in HttpNames \cup {None}, f \in BOOLEAN :
          Router_update_user(i, u, None, None, None, f)
    \/ \E i \in HttpUserIds, e \in HttpNames :
          Router_update_user(i, None, e, None, None, FALSE)
    \/ \E i \in HttpUserIds, f \in BOOLEAN : Router_delete_user(i, f)
    \/ \E n \in HttpNames : Router_create_tag(n, FALSE)
    \/ Router_create_tag(1, TRUE)
    \/ \E c \in HttpUserIds, f \in BOOLEAN :
          Router_create_task("t1", TO_DO_ID, c, None, None, f)
    \/ \E i \in HttpTaskIds, f \in BOOLEAN : Router_get_task(i, f)
    \/ \E i \in HttpTaskIds, f \in BOOLEAN :
          Router_update_task(i, NoTitle, None, None, None, f)
    \/ \E i \in HttpTaskIds : Router_update_task(i, "t2", None, None, None, FALSE)
    \/ \E i \in HttpTaskIds, f \in BOOLEAN : Router_delete_task(i, f)

SpecHttp == InitHttp /\ [][NextHttp]_vars

\* the user endpoints answered twice, the two runs differing only in the
\* passwords submitted
InitUsers ==
    /\ call = IdleCall
    /\ task = IdleTask /\ lastOp = IdleOp
    /\ legacyTask = IdleTask /\ legacyOp = IdleOp
    /\ db_task = EmptyTable /\ db_assignee = {} /\ next_id = 1
    /\ response = IdleReply
    /\ proc = IdleProcs /\ loads = IdleLoads
    /\ db_tag = {} /\ db_attachment = EmptyAttachments /\ next_att_id = 1
    /\ db_user = EmptyUsers /\ db_user2 = EmptyUsers
    /\ next_user_id = 1 /\ response2 = IdleReply
    /\ db_tagrow = EmptyTags /\ next_tag_id = 1
    /\ durations = {} /\ time_log = NoTimeLog /\ value_op = IdleValueOp
    /\ attachment = NoAttachment
    /\ titles = {} /\ title_op = IdleTitleOp
    /\ emails = {} /\ email_op = IdleEmailOp

NextUsers ==
    \/ \E u \in HttpNames, e \in HttpNames, p \in HttpNames, p2 \in HttpNames :
          Router_create_user(u, e, p, p2, FALSE)
    \/ \E i \in HttpUserIds : Router_get_user(i, FALSE)
    \/ \E i \in HttpUserIds, u \in HttpNames \cup {None}, p \in HttpNames,
          p2 \in HttpNames : Router_update_user(i, u, None, p, p2, FALSE)
    \/ \E i \in HttpUserIds, u \in HttpNames \cup {None},
          e \in HttpNames \cup {None} :
          Router_update_user(i, u, e, None, None, FALSE)
    \/ \E i \in HttpUserIds : Router_delete_user(i, FALSE)

SpecUsers == InitUsers /\ [][NextUsers]_vars

\* Duration objects constructed from integers around both ends of the
\* range, added to each other and handed to a TimeLog
InitValues ==
    /\ call = IdleCall
    /\ task = IdleTask /\ lastOp = IdleOp
    /\ legacyTask = IdleTask /\ legacyOp = IdleOp
    /\ db_task = EmptyTable /\ db_assignee = {} /\ next_id = 1
    /\ response = IdleReply
    /\ proc = IdleProcs /\ loads = IdleLoads
    /\ db_tag = {} /\ db_attachment = EmptyAttachments /\ next_att_id = 1
    /\ db_user = SeedUsers /\ db_user2 = SeedUsers
    /\ next_user_id = MaxDbUser + 1 /\ response2 = IdleReply
    /\ db_tagrow = SeedTags /\ next_tag_id = MaxDbTag + 1
    /\ durations = {} /\ time_log = NoTimeLog /\ value_op = IdleValueOp
    /\ attachment = NoAttachment
    /\ titles = {} /\ title_op = IdleTitleOp
    /\ emails = {} /\ email_op = IdleEmailOp

NextValues ==
    \/ \E seconds \in DurationInputs : Call_Duration(seconds)
    \/ \E a \in DurationInputs, b \in DurationInputs : Call_Duration_add(a, b)
    \/ \E d \in DurationInputs : TimeLog_init(d)

SpecValues == InitValues /\ [][NextValues]_vars

\* TaskTitle objects constructed from strings around both ends of the
\* length range
InitTitle ==
    /\ call = IdleCall
    /\ task = IdleTask /\ lastOp = IdleOp
    /\ legacyTask = IdleTask /\ legacyOp = IdleOp
    /\ db_task = EmptyTable /\ db_assignee = {} /\ next_id = 1
    /\ response = IdleReply
    /\ proc = IdleProcs /\ loads = IdleLoads
    /\ db_tag = {} /\ db_attachment = EmptyAttachments /\ next_att_id = 1
    /\ db_user = SeedUsers /\ db_user2 = SeedUsers
    /\ next_user_id = MaxDbUser + 1 /\ response2 = IdleReply
    /\ db_tagrow = SeedTags /\ next_tag_id = MaxDbTag + 1
    /\ durations = {} /\ time_log = NoTimeLog /\ value_op = IdleValueOp
    /\ attachment = NoAttachment
    /\ titles = {} /\ title_op = IdleTitleOp
    /\ emails = {} /\ email_op = IdleEmailOp

NextTitle == \E title \in TitleInputs : Call_TaskTitle(title)

SpecTitle == InitTitle /\ [][NextTitle]_vars

\* Email objects constructed from addresses in every letter case, padded
\* with whitespace, and from malformed strings
InitEmail ==
    /\ call = IdleCall
    /\ task = IdleTask /\ lastOp = IdleOp
    /\ legacyTask = IdleTask /\ legacyOp = IdleOp
    /\ db_task = EmptyTable /\ db_assignee = {} /\ next_id = 1
    /\ response = IdleReply
    /\ proc = IdleProcs /\ loads = IdleLoads
    /\ db_tag = {} /\ db_attachment = EmptyAttachments /\ next_att_id = 1
    /\ db_user = SeedUsers /\ db_user2 = SeedUsers
    /\ next_user_id = MaxDbUser + 1 /\ response2 = IdleReply
    /\ db_tagrow = SeedTags /\ next_tag_id = MaxDbTag + 1
    /\ durations = {} /\ time_log = NoTimeLog /\ value_op = IdleValueOp
    /\ attachment = NoAttachment
    /\ titles = {} /\ title_op = IdleTitleOp
    /\ emails = {} /\ email_op = IdleEmailOp

NextEmail == \E email \in EmailInputs : Call_Email(email)

SpecEmail == InitEmail /\ [][NextEmail]_vars

\* one task of user 1, and requests to update it, to change its status
\* and to delete it that the event loop interleaves
InitGone ==
    /\ call = IdleCall
    /\ task = IdleTask /\ lastOp = IdleOp
    /\ legacyTask = IdleTask /\ legacyOp = IdleOp
    /\ db_task = [i \in {1} |-> Row("t1", TO_DO_ID, 1, None, None)]
    /\ db_assignee = {} /\ next_id = 2
    /\ response = IdleReply
    /\ proc = IdleProcs /\ loads = IdleLoads
    /\ db_tag = {} /\ db_attachment = EmptyAttachments /\ next_att_id = 1
    /\ db_user = SeedUsers /\ db_user2 = SeedUsers
    /\ next_user_id = MaxDbUser + 1 /\ response2 = IdleReply
    /\ db_tagrow = SeedTags /\ next_tag_id = MaxDbTag + 1
    /\ durations = {} /\ time_log = NoTimeLog /\ value_op = IdleValueOp
    /\ attachment = NoAttachment
    /\ titles = {} /\ title_op = IdleTitleOp
    /\ emails = {} /\ email_op = IdleEmailOp

NextGone ==
    \/ \E p \in Procs, i \in ReqTaskIds, t \in {NoTitle, "t2"},
          s \in {None, IN_PROGRESS_ID}, u \in {None, 1, MaxDbUser},
          d \in {<<None, None>>, <<MaxDay, 1>>} :
              UpdateTask_load(p, i, t, s, u, d[1], d[2])
    \/ \E p \in Procs : UpdateTask_save(p)
    \/ \E p \in Procs, i \in ReqTaskIds, s \in {IN_PROGRESS_ID, CANCELLED_ID},
          u \in {None, 1, MaxDbUser} : ChangeStatus_load(p, i, s, u)
    \/ \E p \in Procs : ChangeStatus_save(p)
    \/ \E p \in Procs, i \in ReqTaskIds, u \in {None, 1, MaxDbUser} :
          DeleteTask_load(p, i, u)
    \/ \E p \in Procs : DeleteTask_save(p)

SpecGone == InitGone /\ [][NextGone]_vars

\* a Task object under its mutators, and a stored task under
\* TaskRepository.update and TaskService.update_task
InitFrame ==
    /\ call = IdleCall
    /\ task = Task(1, "t1", "d1", CREATED, MaxUser, None)
    /\ lastOp = IdleOp
    /\ legacyTask = IdleTask /\ legacyOp = IdleOp
    /\ db_task = [i \in {1} |-> Row("t1", TO_DO_ID, MaxDbUser, None, None)]
    /\ db_assignee = {} /\ next_id = 2
    /\ response = IdleReply
    /\ proc = IdleProcs /\ loads = IdleLoads
    /\ db_tag = {} /\ db_attachment = EmptyAttachments /\ next_att_id = 1
    /\ db_user = SeedUsers /\ db_user2 = SeedUsers
    /\ next_user_id = MaxDbUser + 1 /\ response2 = IdleReply
    /\ db_tagrow = SeedTags /\ next_tag_id = MaxDbTag + 1
    /\ durations = {} /\ time_log = NoTimeLog /\ value_op = IdleValueOp
    /\ attachment = NoAttachment
    /\ titles = {} /\ title_op = IdleTitleOp
    /\ emails = {} /\ email_op = IdleEmailOp

NextFrame ==
    \/ \E ti \in Titles, u \in {None, 1, MaxUser}, a \in BOOLEAN :
           Call_update_title(ti, u, a)
    \/ \E s \in TaskStatus, u \in {None, 1, MaxUser}, a \in BOOLEAN :
           Call_change_status(s, u, a)
    \/ \E n \in {1, 2}, u \in {None, 1, MaxUser}, a \in BOOLEAN :
           Call_assign_to(n, u, a)
    \/ \E u \in {None, 1, MaxUser}, a \in BOOLEAN : Call_start_work(u, a)
    \/ \E i \in {1, MaxTasks + 1} : Repo_update(i, "t2", DONE_ID, None, None)
    \/ \E u \in {None, 1} :
           Service_update_task(1, NoTitle, IN_PROGRESS_ID, u, None, None)

SpecFrame == InitFrame /\ [][NextFrame]_vars

\* one repository on one connection, its loading calls step by step; the
\* links change through other connections meanwhile
InitLoad ==
    /\ call = IdleCall
    /\ task = IdleTask /\ lastOp = IdleOp
    /\ legacyTask = IdleTask /\ legacyOp = IdleOp
    /\ db_task = [i \in {1} |-> Row("t1", TO_DO_ID, 1, None, None)]
    /\ db_assignee = {} /\ next_id = 2
    /\ response = IdleReply
    /\ proc = IdleProcs /\ loads = IdleLoads
    /\ db_tag = {} /\ db_attachment = EmptyAttachments /\ next_att_id = 1
    /\ db_user = SeedUsers /\ db_user2 = SeedUsers
    /\ next_user_id = MaxDbUser + 1 /\ response2 = IdleReply
    /\ db_tagrow = SeedTags /\ next_tag_id = MaxDbTag + 1
    /\ durations = {} /\ time_log = NoTimeLog /\ value_op = IdleValueOp
    /\ attachment = NoAttachment
    /\ titles = {} /\ title_op = IdleTitleOp
    /\ emails = {} /\ email_op = IdleEmailOp

NextLoad ==
    \/ \E i \in ReqTaskIds : GetById_begin(i)
    \/ \E i \in ReqTaskIds : Update_begin(i, "t2", IN_PROGRESS_ID, None, None)
    \/ \E l \in Loaders : Load_fetch(l)
    \/ \E l \in Loaders : Load_result(l)
    \/ Gather_return
    \/ \E i \in ReqTaskIds : Repo_assign_task_to_user(i, 1)
    \/ \E i \in ReqTaskIds : Repo_add_tag(i, 1)

SpecLoad == InitLoad /\ [][NextLoad]_vars

\* Attachment objects and POST /attachments with a task stored: names and
\* paths empty, blank, padded or plain, sizes absent and around 0
NameInputs == {<< >>, <<" ">>, <<"f">>, <<" ", "f", " ">>}
SizeInputs == {None, 0 - 2, 0, 1}

InitAtt ==
    /\ call = IdleCall
    /\ task = IdleTask /\ lastOp = IdleOp
    /\ legacyTask = IdleTask /\ legacyOp = IdleOp
    /\ db_task = [i \in {1} |-> Row("t1", TO_DO_ID, 1, None, None)]
    /\ db_assignee = {} /\ next_id = 2
    /\ response = IdleReply
    /\ proc = IdleProcs /\ loads = IdleLoads
    /\ db_tag = {} /\ db_attachment = EmptyAttachments /\ next_att_id = 1
    /\ db_user = SeedUsers /\ db_user2 = SeedUsers
    /\ next_user_id = MaxDbUser + 1 /\ response2 = IdleReply
    /\ db_tagrow = SeedTags /\ next_tag_id = MaxDbTag + 1
    /\ durations = {} /\ time_log = NoTimeLog /\ value_op = IdleValueOp
    /\ attachment = NoAttachment
    /\ titles = {} /\ title_op = IdleTitleOp
    /\ emails = {} /\ email_op = IdleEmailOp

NextAtt ==
    \/ \E f \in NameInputs, p \in NameInputs, n \in SizeInputs :
          Call_Attachment(f, n, p)
    \/ \E i \in {1, MaxTasks + 1}, f \in NameInputs, p \in NameInputs,
          n \in SizeInputs : Router_create_attachment(i, f, p, n)

SpecAtt == InitAtt /\ [][NextAtt]_vars

Next == NextRules \/ NextEntity \/ NextLegacy \/ NextDb \/ NextDeadline
            \/ NextConc \/ NextRepo \/ NextLinks \/ NextHttp \/ NextUsers
            \/ NextValues \/ NextTitle \/ NextEmail \/ NextAtt \/ NextGone
            \/ NextFrame \/ NextLoad

Spec == Init /\ [][Next]_vars


\* =============================================================== claims
\* the allowed-transition table as the design states it
TransitionTable ==
    {<<CREATED, IN_PROGRESS>>, <<CREATED, CANCELLED>>,
     <<IN_PROGRESS, PAUSED>>, <<IN_PROGRESS, COMPLETED>>,
     <<IN_PROGRESS, CANCELLED>>,
     <<PAUSED, IN_PROGRESS>>, <<PAUSED, CANCELLED>>}

Terminal == {COMPLETED, CANCELLED}

\* C1: validate_transition returns normally exactly for the pairs of the
\* allowed-transition table and raises InvalidStatusTransition for every
\* other pair of the five statuses, every self-transition included.
C1_ValidateTransitionMatchesTable ==
    call.fn = "validate_transition" =>
        /\ call.err \in {"none", "InvalidTaskStatusTransitionError"}
        /\ call.err = "none" <=>
               <<call.task.status, call.new_status>> \in TransitionTable
        /\ call.task.status = call.new_status =>
               call.err = "InvalidTaskStatusTransitionError"

C1_Witness ==
    /\ call.fn = "validate_transition"
    /\ call.task.status = PAUSED /\ call.new_status = PAUSED
    /\ call.err = "InvalidTaskStatusTransitionError"

\* C2: once the Task's status is completed or cancelled, no change_status
\* or start_work call, by any caller (admins included), changes it.
C2_TerminalStatusStays ==
    [][task.status \in Terminal => task'.status = task.status]_vars

C2_Witness ==
    /\ lastOp.op \in {"change_status", "start_work"}
    /\ lastOp.is_admin
    /\ lastOp.pre.status \in Terminal
    /\ lastOp.err = "InvalidTaskStatusTransitionError"
    /\ task.status = lastOp.pre.status

\* C3: change_status checks permission first: UnauthorizedEdit whenever
\* the caller may not edit (even when the transition is illegal too),
\* InvalidStatusTransition when the caller may edit and the pair is not
\* in the table, otherwise the call ends with status = new_status.
C3_ChangeStatusPermissionFirst ==
    lastOp.op = "change_status" =>
        LET p == lastOp.pre
            allowed == \/ lastOp.is_admin
                       \/ lastOp.user_id = p.creator_id
                       \/ lastOp.user_id = p.assignee_id
            legal == <<p.status, lastOp.new_status>> \in TransitionTable
        IN /\ ~allowed => lastOp.err = "UnauthorizedTaskEditError"
           /\ (allowed /\ ~legal) =>
                  lastOp.err = "InvalidTaskStatusTransitionError"
           /\ (allowed /\ legal) =>
                  lastOp.err = "none" /\ task.status = lastOp.new_status

C3_Witness ==
    /\ lastOp.op = "change_status"
    /\ ~lastOp.is_admin
    /\ lastOp.user_id \notin {lastOp.pre.creator_id, lastOp.pre.assignee_id}
    /\ <<lastOp.pre.status, lastOp.new_status>> \notin TransitionTable
    /\ lastOp.err = "UnauthorizedTaskEditError"

\* C4: can_edit_task is true if and only if is_admin, or the user id is
\* the task's creator_id or its assignee_id.
C4_CanEditIffAdminCreatorAssignee ==
    call.fn = "can_edit_task" =>
        (call.ret <=> \/ call.is_admin
                      \/ call.user_id = call.task.creator_id
                      \/ call.user_id = call.task.assignee_id)

C4_Witness ==
    /\ call.fn = "can_edit_task"
    /\ ~call.is_admin
    /\ call.user_id = call.task.assignee_id
    /\ call.user_id # call.task.creator_id
    /\ call.ret

\* C5: can_delete_task and can_change_assignee are both true if and only
\* if is_admin or the user id is the task's creator_id, so they agree on
\* every input; an assignee who is not the creator gets false from both.
C5_DeleteAndReassignIffAdminCreator ==
    call.fn \in {"can_delete_task", "can_change_assignee"} =>
        (call.ret <=> (call.is_admin \/ call.user_id = call.task.creator_id))

C5_Witness ==
    /\ call.fn = "can_delete_task"
    /\ ~call.is_admin
    /\ call.user_id = call.task.assignee_id
    /\ call.user_id # call.task.creator_id
    /\ ~call.ret

\* C6: when update_title, change_status, assign_to or start_work raises
\* UnauthorizedEdit, UnauthorizedAssigneeChange or InvalidStatusTransition,
\* every field of the Task is the same after the call as before it.
C6_FailedMutatorLeavesTask ==
    lastOp.err \in {"UnauthorizedTaskEditError",
                    "UnauthorizedAssigneeChangeError",
                    "InvalidTaskStatusTransitionError"} =>
        /\ task.id = lastOp.pre.id
        /\ task.title = lastOp.pre.title
        /\ task.description = lastOp.pre.description
        /\ task.status = lastOp.pre.status
        /\ task.creator_id = lastOp.pre.creator_id
        /\ task.assignee_id = lastOp.pre.assignee_id

C6_Witness ==
    /\ lastOp.op = "change_status"
    /\ lastOp.err = "InvalidTaskStatusTransitionError"
    /\ lastOp.new_status # lastOp.pre.status
    /\ task = lastOp.pre

\* C7: assign_to sets assignee_id to the given id exactly when is_admin
\* or the caller is the creator; for every other caller, the current
\* assignee included, it raises UnauthorizedAssigneeChange.
C7_AssignToOnlyAdminOrCreator ==
    lastOp.op = "assign_to" =>
        IF lastOp.is_admin \/ lastOp.user_id = lastOp.pre.creator_id
        THEN /\ lastOp.err = "none"
             /\ task.assignee_id = lastOp.assignee_id
        ELSE /\ lastOp.err = "UnauthorizedAssigneeChangeError"
             /\ task.assignee_id = lastOp.pre.assignee_id

C7_Witness ==
    /\ lastOp.op = "assign_to"
    /\ ~lastOp.is_admin
    /\ lastOp.user_id = lastOp.pre.assignee_id
    /\ lastOp.user_id # lastOp.pre.creator_id
    /\ lastOp.assignee_id # lastOp.pre.assignee_id
    /\ lastOp.err = "UnauthorizedAssigneeChangeError"

\* C8: start_work has the outcome and the resulting task state of
\* change_status(in_progress) for the same caller: it succeeds only from
\* created or paused and is rejected from in_progress, completed and
\* cancelled. Stated of the older Task class, whose start_work takes no
\* is_admin flag.
C8_StartWorkIsChangeStatus ==
    legacyOp.op = "start_work" =>
        LET r == Task_change_status(legacyOp.pre, IN_PROGRESS,
                                    legacyOp.user_id, FALSE)
        IN /\ legacyOp.err = r.err
           /\ legacyTask = r.task
           /\ legacyOp.err = "none" =>
                  legacyOp.pre.status \in {CREATED, PAUSED}

\* the same statement of the current Task class
StartWorkDelegates ==
    lastOp.op = "start_work" =>
        LET r == Task_change_status(lastOp.pre, IN_PROGRESS,
                                    lastOp.user_id, lastOp.is_admin)
        IN /\ lastOp.err = r.err
           /\ task = r.task
           /\ lastOp.err = "none" => lastOp.pre.status \in {CREATED, PAUSED}

\* the status a task_status row stands for (names of migration 002)
StatusOfId ==
    [i \in StatusRows |->
        CASE i = TO_DO_ID -> CREATED
          [] i = IN_PROGRESS_ID -> IN_PROGRESS
          [] i = DONE_ID -> COMPLETED
          [] i = CANCELLED_ID -> CANCELLED]

\* C9: every change of a stored task's status, by PUT /tasks/{id},
\* TaskRepository.update, TaskRepository.change_status or
\* TaskService.change_task_status, is an edge of the transition table.
C9_StoredStatusFollowsTable ==
    [][\A i \in DOMAIN db_task :
          (i \in DOMAIN db_task' /\ db_task'[i].status_id # db_task[i].status_id)
          => <<StatusOfId[db_task[i].status_id],
               StatusOfId[db_task'[i].status_id]>> \in TransitionTable]_vars

\* C10: immediately after a task is created (POST /tasks,
\* TaskService.create_task, TaskRepository.create) its status is the
\* initial state, whatever the creation request carries.
C10_CreatedInInitialState ==
    [][\A i \in DOMAIN db_task' :
          i \notin DOMAIN db_task => db_task'[i].status_id = TO_DO_ID]_vars

\* C11: after any sequence of create and update operations every stored
\* task that has both deadline_start and deadline_end has
\* deadline_end >= deadline_start (a create or partial update that would
\* break this is rejected and changes nothing).
C11_DeadlineEndNotBeforeStart ==
    \A i \in Stored :
        db_task[i].deadline_start # None /\ db_task[i].deadline_end # None =>
            db_task[i].deadline_end >= db_task[i].deadline_start

\* C12: when load -> change_status -> save sequences on the same task id
\* run without interleaving, the stored status only changes along
\* transition-table edges (interleaved, the later save overwrites the
\* earlier one and the status can change along a pair outside the table).
C12_SerialSequencesFollowTable ==
    [][\A p \in Procs :
          (/\ proc[p].pc = "loaded" /\ proc'[p].pc = "idle" /\ proc[p].alone
           /\ proc[p].task_id \in DOMAIN db_task
           /\ db_task'[proc[p].task_id].status_id
                  # db_task[proc[p].task_id].status_id)
          => <<StatusOfId[db_task[proc[p].task_id].status_id],
               StatusOfId[db_task'[proc[p].task_id].status_id]>>
                 \in TransitionTable]_vars

\* the interleaved half of C12: a save of a request that did not run alone
\* never moves the status out of a terminal one (refuted: last writer wins)
InterleavedSaveKeepsTerminal ==
    [][\A p \in Procs :
          (/\ proc[p].pc = "loaded" /\ proc'[p].pc = "idle" /\ ~proc[p].alone
           /\ proc[p].task_id \in DOMAIN db_task
           /\ proc[p].new_status_id # TO_DO_ID
           /\ StatusOfId[db_task[proc[p].task_id].status_id] \in Terminal)
          => db_task'[proc[p].task_id].status_id
                 = db_task[proc[p].task_id].status_id]_vars

C14_AttachmentMutatorsIdempotent ==
    [][LET attached ==
               /\ response'.arg \in DOMAIN db_attachment
               /\ db_attachment[response'.arg].task_id = response'.task_id
       IN /\ (response'.op = "repo.remove_attachment" /\ ~attached) =>
                db_attachment' = db_attachment /\ response'.code = "ok"
          /\ (response'.op = "repo.add_attachment" /\ attached) =>
                db_attachment' = db_attachment /\ response'.code = "ok"]_vars

C16_FailedCreateStoresNothing ==
    [][(response'.op = "repo.create" /\ response'.code # "ok")
       => /\ db_task' = db_task
          /\ db_assignee' = db_assignee
          /\ db_tag' = db_tag]_vars

\* C17: after any sequence of operations every task_assignee row, every
\* task_tag row and every attachment row refers to a task that is stored
\* (deleting a task removes its links and attachments with it).
C17_RowsReferToStoredTasks ==
    /\ \A l \in db_assignee : l[1] \in Stored
    /\ \A l \in db_tag : l[1] \in Stored
    /\ \A a \in Attachments : db_attachment[a].task_id \in Stored

\* delete has removed the stored task, after an attachment id was handed
\* out, and none of the three tables holds a row
C17_Witness ==
    /\ response.op = "repo.delete" /\ response.code = "ok"
    /\ response.task_id \notin Stored
    /\ next_att_id > 1
    /\ db_assignee = {} /\ db_tag = {} /\ Attachments = {}


\* the rows every endpoint reads and writes
StoredData == <<db_task, db_assignee, db_tag, db_attachment, db_user, db_tagrow>>

\* the request just answered named an id without a row, by endpoint
NotStoredId ==
    \/ /\ response'.op \in {"GET /tasks", "PUT /tasks", "DELETE /tasks"}
       /\ response'.task_id \notin Stored
    \/ /\ response'.op \in {"GET /users", "PUT /users", "DELETE /users"}
       /\ response'.task_id \notin DbUsers

\* the statement of the request just answered raised on the connection
UnexpectedFailure == response'.req.fault /\ response'.req.given

\* a POST /users, PUT /users or POST /tags whose values another row holds
\* answers 409 and stores nothing: a reply that is not such a 409 answers
\* no request with a duplicate
Answered409 == response'.code = "409" /\ StoredData' = StoredData

DuplicateAnswers409 ==
    /\ (response'.op = "POST /users" /\ ~Answered409) =>
          \A u \in Names, e \in Names :
             ~(/\ \E j \in DbUsers :
                     db_user[j].username = u \/ db_user[j].email = e
               /\ Router_create_user(u, e, 1, 1, FALSE))
    /\ (response'.op = "PUT /users" /\ ~Answered409
           /\ response'.task_id \in DbUsers) =>
          \A u \in ReqNames, e \in ReqNames :
             ~(/\ \E j \in DbUsers \ {response'.task_id} :
                     \/ u # None /\ db_user[j].username = u
                     \/ e # None /\ db_user[j].email = e
               /\ Router_update_user(response'.task_id, u, e, None, None,
                                     FALSE))
    /\ (response'.op = "POST /tags" /\ ~Answered409) =>
          \A n \in Names :
             ~(/\ \E t \in DbTags : db_tagrow[t] = n
               /\ Router_create_tag(n, FALSE))

\* C18 as stated: every get, update or delete of an id that is not stored
\* answers 404, a duplicate username, email or tag name answers 409, an
\* unexpected failure answers 500, and the stored data is unchanged in each
\* case.
C18_AsStated ==
    [][/\ (NotStoredId /\ ~UnexpectedFailure)
            => response'.code = "404" /\ StoredData' = StoredData
       /\ DuplicateAnswers409
       /\ UnexpectedFailure
            => response'.code = "500" /\ StoredData' = StoredData]_vars

\* C18: get and delete of an id that is not stored, and update of such an id
\* with at least one field in the body, answer 404 (an update with no field
\* answers 400 before any row is looked up); a duplicate username, email or
\* tag name answers 409; an unexpected failure answers 500; in each of these
\* cases the stored data is unchanged.
C18_ErrorKindsMapToStatusCodes ==
    [][/\ (NotStoredId /\ ~UnexpectedFailure)
            => /\ response'.code = IF response'.req.given THEN "404" ELSE "400"
               /\ StoredData' = StoredData
       /\ DuplicateAnswers409
       /\ UnexpectedFailure
            => response'.code = "500" /\ StoredData' = StoredData]_vars

\* PUT /users/{id} with a username for an id without a row was answered
\* 404 while a user and a task are stored
C18_Witness ==
    /\ response.op = "PUT /users" /\ response.code = "404"
    /\ response.req.given /\ response.task_id \notin DbUsers
    /\ DbUsers # {} /\ Stored # {}

\* the other cases of C18 occur: a 409, a 500 with rows stored, and the
\* 400 of an update with no field for an id without a row
C18_Cases409 == response.code = "409" /\ response.op = "PUT /users"
C18_Cases500 == response.code = "500" /\ response.op = "DELETE /tasks" /\ Stored # {}
C18_Cases400 == response.code = "400" /\ response.op = "PUT /tasks" /\ response.task_id \notin Stored /\ ~response.req.given


\* C19: no response of a user endpoint depends on the password: two runs
\* of the same requests that differ only in the passwords submitted to
\* POST /users and PUT /users answer every request with the same status
\* code and the same body (id, username, email).
C19_ResponsesIndependentOfPassword ==
    response.op \in {"POST /users", "GET /users", "PUT /users", "DELETE /users"}
    => /\ response.code = response2.code
       /\ response.body = response2.body
       /\ DOMAIN response.body = {"id", "username", "email"}

\* GET /users/{id} answered 200 in both runs for a user whose stored
\* password differs between the runs
C19_Witness ==
    /\ response.op = "GET /users" /\ response.code = "200"
    /\ response.task_id \in DbUsers
    /\ db_user[response.task_id].password_hash
          # db_user2[response.task_id].password_hash

\* the same after POST /users and after PUT /users with a password
C19_CasesPost == response.op = "POST /users" /\ response.code = "201" /\ db_user # db_user2
C19_CasesPut == response.op = "PUT /users" /\ response.code = "200" /\ db_user[response.task_id].password_hash # db_user2[response.task_id].password_hash


\* C20: Duration(d) returns an object exactly for integers 0 <= d <= 86400
\* and raises InvalidDurationError for d < 0 and for d > 86400, also when
\* called by the addition of two Durations; so every Duration object, the
\* one a TimeLog holds included, has 0 <= seconds <= 86400.
C20_DurationRange ==
    /\ value_op.op = "Duration" =>
          /\ value_op.err = "none" <=>
                (0 <= value_op.seconds /\ value_op.seconds <= 86400)
          /\ value_op.err = "InvalidDurationError" <=>
                (value_op.seconds < 0 \/ value_op.seconds > 86400)
          /\ value_op.err = "none" => value_op.result = value_op.seconds
    /\ value_op.op = "Duration.__add__" =>
          /\ value_op.err = "none" <=> value_op.seconds + value_op.other <= 86400
          /\ value_op.err \in {"none", "InvalidDurationError"}
    /\ \A d \in durations : 0 <= d /\ d <= 86400
    /\ time_log # NoTimeLog => 0 <= time_log.duration /\ time_log.duration <= 86400

\* Duration(86401) has just been refused while a TimeLog holds Duration(86400)
\* and Duration(0) exists
C20_Witness ==
    /\ value_op.op = "Duration" /\ value_op.seconds = 86401
    /\ value_op.err = "InvalidDurationError"
    /\ time_log.duration = 86400
    /\ 0 \in durations

\* a sum over the cap has been refused, and a negative integer has been
C20_CasesAdd == value_op.op = "Duration.__add__" /\ value_op.err = "InvalidDurationError" /\ value_op.seconds + value_op.other = 86401
C20_CasesNegative == value_op.op = "Duration" /\ value_op.seconds = 0 - 1 /\ value_op.err = "InvalidDurationError"


\* C21: for all Durations a and b, a + b is the Duration of a.seconds +
\* b.seconds when that sum is at most 86400 and raises InvalidDurationError
\* when it exceeds 86400; a + b and b + a have the same outcome, and the
\* addition leaves both operands, every other Duration and the TimeLog as
\* they were.
C21_AddSumsAndRevalidates ==
    [][/\ value_op'.op = "Duration.__add__" =>
             /\ value_op'.seconds \in durations /\ value_op'.other \in durations
             /\ IF value_op'.seconds + value_op'.other <= 86400
                THEN /\ value_op'.err = "none"
                     /\ value_op'.result = value_op'.seconds + value_op'.other
                     /\ durations' = durations \cup {value_op'.result}
                ELSE /\ value_op'.err = "InvalidDurationError"
                     /\ durations' = durations
             /\ time_log' = time_log
       /\ \A a \in durations, b \in durations :
             Duration_add(a, b) = Duration_add(b, a)]_vars

\* Duration(86400) + Duration(1) has just raised, both operands still exist
C21_Witness ==
    /\ value_op.op = "Duration.__add__" /\ value_op.err = "InvalidDurationError"
    /\ value_op.seconds = 86400 /\ value_op.other = 1
    /\ {1, 86400} \subseteq durations

\* a sum of two different operands has been constructed
C21_CasesSum == value_op.op = "Duration.__add__" /\ value_op.err = "none" /\ value_op.seconds = 86399 /\ value_op.other = 1 /\ value_op.result = 86400


\* the positions of s that hold a character other than whitespace
Inked(s) == {i \in 1..Len(s) : s[i] \notin Whitespace}

\* s without its leading and trailing whitespace, for s that is not blank
Trimmed(s) ==
    SubSeq(s, CHOOSE i \in Inked(s) : \A j \in Inked(s) : i <= j,
              CHOOSE i \in Inked(s) : \A j \in Inked(s) : i >= j)

\* C22: TaskTitle(s) fails with the empty-title error (a ValueError) when s
\* is empty or only whitespace, fails with TaskTitleTooLongError when the
\* trimmed length exceeds 255, and otherwise yields a title whose value is
\* the trimmed s; a trimmed length of exactly 255 is accepted.
C22_TaskTitleTrimsAndValidates ==
    /\ title_op.op = "TaskTitle" =>
          IF Inked(title_op.title) = {}
          THEN title_op.err = "ValueError"
          ELSE IF Len(Trimmed(title_op.title)) > 255
          THEN title_op.err = "TaskTitleTooLongError"
          ELSE /\ title_op.err = "none"
               /\ title_op.value = Trimmed(title_op.title)
               /\ title_op.value \in titles
    /\ \A t \in titles : Len(t) \in 1..255 /\ t[1] \notin Whitespace
                         /\ t[Len(t)] \notin Whitespace

\* a title of 255 characters between whitespace has just been accepted
C22_Witness ==
    /\ title_op.op = "TaskTitle" /\ title_op.err = "none"
    /\ Len(title_op.title) = 257 /\ Len(title_op.value) = 255
    /\ \A t \in titles : Len(t) = 255

\* the two failures occur
C22_CasesBlank == title_op.op = "TaskTitle" /\ title_op.err = "ValueError" /\ Len(title_op.title) = 2
C22_CasesTooLong == title_op.op = "TaskTitle" /\ title_op.err = "TaskTitleTooLongError" /\ Len(Trimmed(title_op.title)) = 256


\* letters that differ in case only
CasePairs == {<<"a", "A">>, <<"b", "B">>, <<"c", "C">>, <<"o", "O">>}

\* x and y, neither blank, differ only in letter case or surrounding whitespace
SameButCaseAndPadding(x, y) ==
    /\ Inked(x) # {} /\ Inked(y) # {}
    /\ Len(Trimmed(x)) = Len(Trimmed(y))
    /\ \A i \in 1..Len(Trimmed(x)) :
          \/ Trimmed(x)[i] = Trimmed(y)[i]
          \/ <<Trimmed(x)[i], Trimmed(y)[i]>> \in CasePairs
          \/ <<Trimmed(y)[i], Trimmed(x)[i]>> \in CasePairs

\* C23: Email trims and lowercases before it validates: two inputs that
\* differ only in letter case or surrounding whitespace, one of which
\* constructs an Email, construct equal Emails with the same hash; the
\* stored value has no upper-case letter and no surrounding whitespace;
\* Email(e.value) equals e; empty and malformed input fails with
\* InvalidEmailError.
C23_EmailNormalizes ==
    /\ \A e \in emails :
          /\ (email_op.op = "Email" /\ SameButCaseAndPadding(e.email, email_op.email))
                => /\ email_op.err = "none"
                   /\ email_op.value = e.value
                   /\ email_op.hash = e.hash
          /\ Email(e.value) = [err |-> "none", value |-> e.value]
          /\ \A i \in 1..Len(e.value) : e.value[i] \notin UpperLetters \cup Whitespace
    /\ (email_op.op = "Email" /\ Strip(email_op.email) \in Malformed)
          => email_op.err = "InvalidEmailError"
    /\ (email_op.op = "Email" /\ email_op.err = "none")
          => SameButCaseAndPadding(email_op.email, email_op.value)

\* " A@B.CO" with a trailing tab has just constructed the Email that
\* "a@b.co" constructed before
C23_Witness ==
    /\ email_op.op = "Email" /\ email_op.err = "none"
    /\ email_op.email = <<" ", "A", "@", "B", ".", "C", "O", "\t">>
    /\ email_op.value = <<"a", "@", "b", ".", "c", "o">>
    /\ \E e \in emails : e.email = email_op.value /\ e.hash = email_op.hash

\* a malformed address has been refused after an Email was constructed
C23_CasesMalformed == email_op.op = "Email" /\ email_op.err = "InvalidEmailError" /\ email_op.email = <<"a", "@", "b", ".", "c">> /\ emails # {}


\* filename and storage path hold a character, the size is an integer >= 0
ValidAttachment(a) ==
    /\ a.filename # << >> /\ a.storage_path # << >>
    /\ a.size_bytes # None /\ a.size_bytes >= 0

\* C24: every Attachment, a domain object or a row stored through POST
\* /attachments, has a non-empty filename, a non-empty storage path and a
\* size in bytes that is not negative.
C24_AttachmentsAreValid ==
    /\ \A a \in attachment : ValidAttachment(a)
    /\ \A a \in Attachments : ValidAttachment(db_attachment[a])

\* the rows POST /attachments stores have a filename and a storage path
\* without surrounding whitespace and a size that is absent or >= 0
StoredAttachmentsChecked ==
    \A a \in Attachments :
        /\ db_attachment[a].filename # << >> /\ db_attachment[a].storage_path # << >>
        /\ Strip(db_attachment[a].filename) = db_attachment[a].filename
        /\ db_attachment[a].size_bytes = None \/ db_attachment[a].size_bytes >= 0


\* request p executes its write now
Writes(p) ==
    /\ proc[p].pc \in {"loaded", "update_loaded", "delete_loaded"}
    /\ proc'[p].pc = "idle"

\* C25: update_task, change_task_status and delete_task answer 404 whenever
\* the target task is not stored at the moment their write executes, also
\* when another request deleted it after this request's get_by_id.
C25_WriteOnDeletedTaskAnswers404 ==
    [][\A p \in Procs :
          Writes(p) /\ proc[p].task_id \notin Stored
              => response'.code = "404"]_vars

\* the part delete_task keeps: its write on a task that is gone answers 404
DeleteOnDeletedTaskAnswers404 ==
    [][\A p \in Procs :
          /\ proc[p].pc = "delete_loaded" /\ proc'[p].pc = "idle"
          /\ proc[p].task_id \notin Stored
          => response'.code = "404"]_vars

\* a request that loaded its task while the task has been deleted since
LoadedTaskGone ==
    \E p \in Procs : proc[p].pc = "delete_loaded" /\ proc[p].task_id \notin Stored


\* the fields of a Task object, and those other than f
TaskFields == {"id", "title", "description", "status", "creator_id", "assignee_id"}
SameExcept(f) == \A g \in TaskFields \ {f} : task'[g] = task[g]

\* the field each entity mutator assigns
OwnField(op) ==
    CASE op = "update_title" -> "title"
      [] op = "assign_to" -> "assignee_id"
      [] OTHER -> "status"

\* C26: each successful entity mutator changes only its own field
\* (change_status and start_work the status, update_title the title,
\* assign_to the assignee_id); no entity operation changes a task's id or
\* creator_id, and TaskRepository.update and TaskService.update_task never
\* change the stored creator_id.
C26_MutatorsChangeOwnFieldOnly ==
    [][/\ lastOp' # lastOp =>
            /\ lastOp'.err = "none" => SameExcept(OwnField(lastOp'.op))
            /\ task'.id = task.id /\ task'.creator_id = task.creator_id
       /\ response'.op \in {"repo.update", "service.update_task"} =>
            \A i \in Stored :
                i \in DOMAIN db_task'
                    /\ db_task'[i].creator_id = db_task[i].creator_id]_vars

\* an admin other than the creator has retitled the object, and an update
\* has rewritten the stored row
C26_Witness ==
    /\ lastOp.op = "update_title" /\ lastOp.err = "none"
    /\ lastOp.user_id # task.creator_id /\ task.title # lastOp.pre.title
    /\ response.op = "repo.update" /\ response.code = "ok"
    /\ 1 \in Stored /\ db_task[1].title = "t2"

C26_CasesAssign ==
    /\ lastOp.op = "assign_to" /\ lastOp.err = "none"
    /\ task.assignee_id # lastOp.pre.assignee_id
    /\ response.op = "service.update_task" /\ response.code = "ok"


\* update_title or change_status can succeed for user u without the admin
\* flag on the object as it is now
CanMutate(t, u) ==
    \/ \E ti \in Titles : Task_update_title(t, ti, u, FALSE).err = "none"
    \/ \E s \in TaskStatus : Task_change_status(t, s, u, FALSE).err = "none"

\* every user passes update_title's check; change_status adds no one
Editors(t) == {u \in UserIds : Task_update_title(t, "t2", u, FALSE).err = "none"}

\* C27: after any sequence of entity operations the non-admin users for
\* whom update_title or change_status can succeed are exactly the creator
\* and the current assignee; assignee_id changes only through a successful
\* assign_to called by the creator or an admin, which sets it to its
\* argument, so a previous assignee loses its edit rights on reassignment
\* and a non-admin non-creator user grants edit rights to no one.
C27_EditorsAreCreatorAndLatestAssignee ==
    [][/\ Editors(task') = {task'.creator_id, task'.assignee_id} \cap UserIds
       /\ \A u \in UserIds : CanMutate(task', u) => u \in Editors(task')
       /\ lastOp' # lastOp /\ lastOp'.op = "assign_to" /\ lastOp'.err = "none"
             => task'.assignee_id = lastOp'.assignee_id
       /\ task'.assignee_id # task.assignee_id =>
             /\ lastOp'.op = "assign_to" /\ lastOp'.err = "none"
             /\ lastOp'.is_admin \/ lastOp'.user_id = task.creator_id
             /\ task.assignee_id \in UserIds \ {task.creator_id}
                    => task.assignee_id \notin Editors(task')
       /\ lastOp' # lastOp /\ ~lastOp'.is_admin
             /\ lastOp'.user_id # task.creator_id
             => Editors(task') = Editors(task)]_vars

\* the creator has reassigned the task away from an assignee who was not
\* the creator
C27_Witness ==
    /\ lastOp.op = "assign_to" /\ lastOp.err = "none" /\ ~lastOp.is_admin
    /\ lastOp.pre.assignee_id \in UserIds \ {task.creator_id}
    /\ task.assignee_id # lastOp.pre.assignee_id
    /\ lastOp.pre.assignee_id \notin Editors(task)

\* the assignee tried to reassign the task and was refused
C27_CasesAssigneeRefused ==
    /\ lastOp.op = "assign_to" /\ lastOp.err # "none"
    /\ lastOp.user_id = task.assignee_id /\ task.assignee_id # task.creator_id


\* C28: for a task that has no assignee, can_edit_task without the admin
\* flag returns true only for the creator; a caller whose user id is absent
\* (None) is refused, so update_title and change_status raise
\* UnauthorizedTaskEditError for it.
C28_NoAssigneeOnlyCreatorEdits ==
    /\ task.assignee_id = None =>
          \A u \in CallerIds :
              can_edit_task(u, task, FALSE) => u = task.creator_id
    /\ (/\ lastOp.op \in {"update_title", "change_status"}
        /\ lastOp.pre.assignee_id = None
        /\ lastOp.user_id = None /\ ~lastOp.is_admin)
          => lastOp.err = "UnauthorizedTaskEditError"

\* the part that holds: among the user ids, only the creator edits a task
\* without an assignee
NoAssigneeOnlyCreatorAmongUsers ==
    task.assignee_id = None =>
        \A u \in UserIds : can_edit_task(u, task, FALSE) => u = task.creator_id

\* update_title called with user id None on a task without an assignee
\* has returned normally
AbsentCallerEdited ==
    /\ lastOp.op = "update_title" /\ lastOp.user_id = None /\ ~lastOp.is_admin
    /\ lastOp.pre.assignee_id = None /\ lastOp.err = "none"
    /\ task.title # lastOp.pre.title


\* get_by_id answers for the id that the create just before it returned
LoadsCreated ==
    /\ response.op = "repo.create" /\ response.code = "ok"
    /\ response'.op = "repo.get_by_id" /\ response'.task_id = response.task_id

\* C29: the Task returned by TaskRepository.create(task) equals the
\* aggregate that get_by_id(returned id) loads right afterwards: the same
\* scalar fields and the same assignees and tags.
C29_CreateReturnsWhatGetByIdLoads ==
    [][LoadsCreated => response'.body = response.body]_vars

\* the part that holds: the scalar fields agree
CreateReturnsStoredScalars ==
    [][LoadsCreated =>
          \A f \in {"id", "title", "status_id", "creator_id",
                    "deadline_start", "deadline_end"} :
              response'.body[f] = response.body[f]]_vars

\* a task created with an assignee has been loaded with that assignee
LoadedWithAssignee ==
    /\ response.op = "repo.get_by_id" /\ response.code = "Task"
    /\ response.body.assignees # {}


\* C30: a TaskRepositoryImpl never has more than one query in flight on
\* its single connection: during get_by_id, update and the other loading
\* calls the loads of assignees, tags and attachments do not overlap, that
\* is, no load's query is in flight together with another's and none is
\* refused because another's is.
C30_OneQueryInFlight ==
    /\ Cardinality(InFlight) <= 1
    /\ \A l \in Loaders : loads.st[l] # "refused"

\* the part that holds: the first load's query goes out on an idle
\* connection
FirstLoadAlone ==
    loads.st[LoadOrder[1]] = "ready" => InFlight = {}

\* the second load has called fetch while the first one's query was in
\* flight
SecondLoadOverlaps ==
    /\ loads.st[LoadOrder[1]] = "in_flight"
    /\ loads.st[LoadOrder[2]] \in {"in_flight", "refused"}

====
